---------------------------- MODULE Spec2Model ----------------------------
(***************************************************************************)
(* A model of the JSON repair engine (repairJSON and its rewrite passes)   *)
(* and of the safe decoder (To, prepareJSONForUnmarshalling, isJSONArray)  *)
(* of package safeunmarshal.                                               *)
(*                                                                         *)
(* A text is a sequence of one-character strings.  The standard library    *)
(* functions the code calls (strings.*, regexp with RE2 leftmost-first     *)
(* semantics, json.Valid, json.Compact, json.Unmarshal) are operators that *)
(* compute what the library computes on such texts.                        *)
(***************************************************************************)
EXTENDS Integers, Sequences, FiniteSets, TLC

(***************************************************************************)
(* Bounds of the model.                                                    *)
(***************************************************************************)
MaxLen == 3

MaxDepth == 1

MaxFields == 2

(***************************************************************************)
(* Character classes.                                                      *)
(***************************************************************************)
\* unicode.IsSpace restricted to ASCII, as used by strings.TrimSpace
SpaceChars == {" ", "\t", "\n", "\r", "\f"}

\* the class \s of the regexp package
ReSpace == {" ", "\t", "\n", "\r", "\f"}

\* the insignificant whitespace of JSON (encoding/json scanner)
JSONSpace == {" ", "\t", "\n", "\r"}

\* characters below 0x20, which a JSON string literal may not contain
ControlChars == {"\t", "\n", "\r", "\f"}

Digits == {"0", "1", "2", "3", "4", "5", "6", "7", "8", "9"}

LowerSeq == <<"a", "b", "c", "d", "e", "f", "g", "h", "i", "j", "k", "l", "m",
              "n", "o", "p", "q", "r", "s", "t", "u", "v", "w", "x", "y", "z">>

UpperSeq == <<"A", "B", "C", "D", "E", "F", "G", "H", "I", "J", "K", "L", "M",
              "N", "O", "P", "Q", "R", "S", "T", "U", "V", "W", "X", "Y", "Z">>

LowerLetters == {LowerSeq[n] : n \in DOMAIN LowerSeq}

UpperLetters == {UpperSeq[n] : n \in DOMAIN UpperSeq}

Letters == LowerLetters \cup UpperLetters

\* the class \w of the regexp package: [0-9A-Za-z_]
WordChars == Letters \cup Digits \cup {"_"}

HexDigits == Digits \cup {"a", "b", "c", "d", "e", "f", "A", "B", "C", "D", "E", "F"}

\* strings.ToLower on one ASCII character
LowerChar(c) ==
    IF c \in UpperLetters
    THEN LowerSeq[CHOOSE n \in DOMAIN UpperSeq : UpperSeq[n] = c]
    ELSE c

ToLower(s) == [n \in DOMAIN s |-> LowerChar(s[n])]

(***************************************************************************)
(* Package strings.                                                        *)
(***************************************************************************)
\* the text of a string literal
Chars(str) == [n \in 1..Len(str) |-> SubSeq(str, n, n)]

\* the backquote character (a string literal holds one only before a quote)
Backquote == SubSeq("`'", 1, 1)

\* the markdown fences that repairJSON strips
Fence == <<Backquote, Backquote, Backquote>>

FenceJSON == Fence \o Chars("json")

\* s[i..j] with 1-based inclusive indices; empty when j < i
Slice(s, i, j) == SubSeq(s, i, j)

\* whether p occurs in s starting at index i
MatchAt(s, i, p) ==
    /\ i >= 1
    /\ i + Len(p) - 1 <= Len(s)
    /\ \A k \in 1..Len(p) : s[i + k - 1] = p[k]

HasPrefix(s, p) == MatchAt(s, 1, p)

HasSuffix(s, p) == Len(p) <= Len(s) /\ MatchAt(s, Len(s) - Len(p) + 1, p)

Contains(s, p) == \E i \in 1..(Len(s) + 1) : MatchAt(s, i, p)

TrimPrefix(s, p) == IF HasPrefix(s, p) THEN Slice(s, Len(p) + 1, Len(s)) ELSE s

TrimSuffix(s, p) == IF HasSuffix(s, p) THEN Slice(s, 1, Len(s) - Len(p)) ELSE s

TrimSpace(s) ==
    LET keep == {n \in DOMAIN s : s[n] \notin SpaceChars}
    IN  IF keep = {} THEN <<>>
        ELSE Slice(s, CHOOSE n \in keep : \A m \in keep : n <= m,
                      CHOOSE n \in keep : \A m \in keep : m <= n)

\* strings.Count for a one-character separator
Count(s, c) == Cardinality({n \in DOMAIN s : s[n] = c})

\* strings.IndexAny, 1-based; 0 when no character of cs occurs
IndexAny(s, cs) ==
    LET hits == {n \in DOMAIN s : s[n] \in cs}
    IN  IF hits = {} THEN 0 ELSE CHOOSE n \in hits : \A m \in hits : n <= m

\* the first index >= i whose character is not in cs, or Len(s) + 1
RECURSIVE SkipClass(_, _, _)
SkipClass(s, i, cs) ==
    IF i <= Len(s) /\ s[i] \in cs THEN SkipClass(s, i + 1, cs) ELSE i

\* the first index >= i whose character is in cs, or Len(s) + 1
RECURSIVE FindClass(_, _, _)
FindClass(s, i, cs) ==
    IF i <= Len(s) /\ s[i] \notin cs THEN FindClass(s, i + 1, cs) ELSE i

RECURSIVE JoinComma(_)
JoinComma(parts) ==
    IF Len(parts) = 0 THEN <<>>
    ELSE IF Len(parts) = 1 THEN parts[1]
    ELSE parts[1] \o <<",">> \o JoinComma(Tail(parts))

\* strings.Split(s, ","): the pieces between commas, in order
RECURSIVE SplitComma(_)
SplitComma(s) ==
    LET k == FindClass(s, 1, {","})
    IN  IF k > Len(s) THEN <<s>>
        ELSE <<Slice(s, 1, k - 1)>> \o SplitComma(Slice(s, k + 1, Len(s)))

(***************************************************************************)
(* Package encoding/json: the grammar of the scanner (json.Valid), the     *)
(* value a text decodes to (json.Unmarshal into interface{}), and          *)
(* json.Compact.                                                           *)
(*                                                                         *)
(* The parser yields a tree <<kind, payload>>:                             *)
(*   <<"null", 0>>, <<"bool", b>>, <<"str", unescaped text>>,              *)
(*   <<"num", literal>>, <<"arr", sequence of trees>>,                     *)
(*   <<"obj", sequence of <<key, tree>> members in source order>>.         *)
(* The value stored into an interface{} is ValueOf(tree): a number is its  *)
(* sign, integer digits, fraction digits without trailing zeros, and       *)
(* exponent; an object is a function from key to value, in which the last  *)
(* duplicate of a key wins.                                                *)
(***************************************************************************)
ParseFail == [ok |-> FALSE, nxt |-> 0, val |-> <<"null", 0>>]

ParseOk(n, v) == [ok |-> TRUE, nxt |-> n, val |-> v]

\* the character an escape sequence \c stands for
Unescape(c) ==
    CASE c = "n" -> "\n"
      [] c = "t" -> "\t"
      [] c = "r" -> "\r"
      [] c = "f" -> "\f"
      [] c = "b" -> "\\b"
      [] OTHER -> c

\* scans the body of a string literal from index i (after the opening quote)
RECURSIVE ParseStringBody(_, _, _)
ParseStringBody(s, i, acc) ==
    IF i > Len(s) THEN ParseFail
    ELSE IF s[i] = "\"" THEN ParseOk(i + 1, <<"str", acc>>)
    ELSE IF s[i] \in ControlChars THEN ParseFail
    ELSE IF s[i] = "\\" THEN
        IF i + 1 > Len(s) THEN ParseFail
        ELSE IF s[i + 1] \in {"\"", "\\", "/", "b", "f", "n", "r", "t"}
             THEN ParseStringBody(s, i + 2, Append(acc, Unescape(s[i + 1])))
        ELSE IF s[i + 1] = "u"
             THEN IF i + 5 <= Len(s) /\ \A k \in 2..5 : s[i + k] \in HexDigits
                  THEN ParseStringBody(s, i + 6,
                          acc \o <<"\\u">> \o ToLower(Slice(s, i + 2, i + 5)))
                  ELSE ParseFail
        ELSE ParseFail
    ELSE ParseStringBody(s, i + 1, Append(acc, s[i]))

ParseString(s, i) == ParseStringBody(s, i + 1, <<>>)

\* the index after `-? (0 | [1-9][0-9]*)` starting at index i, or 0
IntegerEnd(s, a) ==
    IF a <= Len(s) /\ s[a] = "0" THEN a + 1
    ELSE IF SkipClass(s, a, Digits) = a THEN 0
    ELSE SkipClass(s, a, Digits)

\* the index after an optional `\. [0-9]+` starting at index b, or 0
FractionEnd(s, b) ==
    IF b = 0 THEN 0
    ELSE IF b <= Len(s) /\ s[b] = "."
         THEN IF SkipClass(s, b + 1, Digits) = b + 1 THEN 0
              ELSE SkipClass(s, b + 1, Digits)
    ELSE b

\* the index after the digits of an exponent, which start at index d0, or 0
ExponentDigitsEnd(s, d0) ==
    IF SkipClass(s, d0, Digits) = d0 THEN 0 ELSE SkipClass(s, d0, Digits)

\* the index after an optional `[eE] [+-]? [0-9]+` starting at index c, or 0
ExponentEnd(s, c) ==
    IF c = 0 THEN 0
    ELSE IF c <= Len(s) /\ s[c] \in {"e", "E"}
         THEN IF c + 1 <= Len(s) /\ s[c + 1] \in {"+", "-"}
              THEN ExponentDigitsEnd(s, c + 2)
              ELSE ExponentDigitsEnd(s, c + 1)
    ELSE c

\* the index after a number literal starting at index i, or 0:
\* -? (0 | [1-9][0-9]*) (\. [0-9]+)? ([eE] [+-]? [0-9]+)?
NumberEnd(s, i) ==
    ExponentEnd(s, FractionEnd(s, IntegerEnd(s, IF s[i] = "-" THEN i + 1 ELSE i)))

ParseNumber(s, i) ==
    IF NumberEnd(s, i) = 0 THEN ParseFail
    ELSE ParseOk(NumberEnd(s, i), <<"num", Slice(s, i, NumberEnd(s, i) - 1)>>)

ParseLiteral(s, i) ==
    IF MatchAt(s, i, <<"t", "r", "u", "e">>) THEN ParseOk(i + 4, <<"bool", TRUE>>)
    ELSE IF MatchAt(s, i, <<"f", "a", "l", "s", "e">>) THEN ParseOk(i + 5, <<"bool", FALSE>>)
    ELSE IF MatchAt(s, i, <<"n", "u", "l", "l">>) THEN ParseOk(i + 4, <<"null", 0>>)
    ELSE ParseFail

\* the object a sequence of <<key, value>> members decodes to
ObjOf(members) ==
    [k \in {members[n][1] : n \in DOMAIN members} |->
        members[CHOOSE n \in DOMAIN members :
                    /\ members[n][1] = k
                    /\ \A m \in DOMAIN members : members[m][1] = k => m <= n][2]]

RECURSIVE ParseValue(_, _)
RECURSIVE ParseElements(_, _, _)
RECURSIVE ParseMembers(_, _, _)

\* the elements of an array from index i, up to and including the closing ]
ParseElements(s, i, acc) ==
    LET r == ParseValue(s, i)
        k == SkipClass(s, r.nxt, JSONSpace)
    IN  IF ~r.ok \/ k > Len(s) THEN ParseFail
        ELSE IF s[k] = ","
             THEN ParseElements(s, SkipClass(s, k + 1, JSONSpace), Append(acc, r.val))
        ELSE IF s[k] = "]" THEN ParseOk(k + 1, <<"arr", Append(acc, r.val)>>)
        ELSE ParseFail

\* the members of an object from index i, up to and including the closing }
ParseMembers(s, i, acc) ==
    IF i > Len(s) \/ s[i] # "\"" THEN ParseFail
    ELSE
    LET key == ParseString(s, i)
        c   == SkipClass(s, key.nxt, JSONSpace)
    IN  IF ~key.ok \/ c > Len(s) \/ s[c] # ":" THEN ParseFail
        ELSE
        LET r == ParseValue(s, SkipClass(s, c + 1, JSONSpace))
            k == SkipClass(s, r.nxt, JSONSpace)
            m == Append(acc, <<key.val[2], r.val>>)
        IN  IF ~r.ok \/ k > Len(s) THEN ParseFail
            ELSE IF s[k] = ","
                 THEN ParseMembers(s, SkipClass(s, k + 1, JSONSpace), m)
            ELSE IF s[k] = "}" THEN ParseOk(k + 1, <<"obj", m>>)
            ELSE ParseFail

ParseValue(s, i) ==
    IF i > Len(s) THEN ParseFail
    ELSE IF s[i] = "{" THEN
        LET j == SkipClass(s, i + 1, JSONSpace)
        IN  IF j <= Len(s) /\ s[j] = "}" THEN ParseOk(j + 1, <<"obj", <<>>>>)
            ELSE ParseMembers(s, j, <<>>)
    ELSE IF s[i] = "[" THEN
        LET j == SkipClass(s, i + 1, JSONSpace)
        IN  IF j <= Len(s) /\ s[j] = "]" THEN ParseOk(j + 1, <<"arr", <<>>>>)
            ELSE ParseElements(s, j, <<>>)
    ELSE IF s[i] = "\"" THEN ParseString(s, i)
    ELSE IF s[i] \in Digits \cup {"-"} THEN ParseNumber(s, i)
    ELSE ParseLiteral(s, i)

\* one JSON value surrounded by insignificant whitespace
ParseDocument(s) ==
    LET r == ParseValue(s, SkipClass(s, 1, JSONSpace))
    IN  IF r.ok /\ SkipClass(s, r.nxt, JSONSpace) > Len(s) THEN r ELSE ParseFail

\* json.Valid
JSONValid(s) == ParseDocument(s).ok

\* the syntax tree of a valid text
TreeOf(s) == ParseDocument(s).val

\* drops the trailing zeros of a fraction
RECURSIVE StripTrailingZeros(_)
StripTrailingZeros(d) ==
    IF Len(d) > 0 /\ d[Len(d)] = "0"
    THEN StripTrailingZeros(Slice(d, 1, Len(d) - 1))
    ELSE d

\* the number a literal denotes: <<negative, integer digits, fraction, exponent>>
NumberOf(lit) ==
    LET a == IF lit[1] = "-" THEN 2 ELSE 1
        b == SkipClass(lit, a, Digits)
        c == IF b <= Len(lit) /\ lit[b] = "." THEN SkipClass(lit, b + 1, Digits) ELSE b
        frac == IF c > b THEN StripTrailingZeros(Slice(lit, b + 1, c - 1)) ELSE <<>>
        zero == frac = <<>> /\ \A n \in a..(b - 1) : lit[n] = "0"
    IN  << lit[1] = "-" /\ ~zero, Slice(lit, a, b - 1), frac,
           IF zero THEN <<>> ELSE Slice(lit, c + 1, Len(lit)) >>

RECURSIVE ValueOf(_)
ValueOf(tree) ==
    IF tree[1] = "num" THEN <<"num", NumberOf(tree[2])>>
    ELSE IF tree[1] = "arr"
         THEN <<"arr", [n \in DOMAIN tree[2] |-> ValueOf(tree[2][n])]>>
    ELSE IF tree[1] = "obj"
         THEN <<"obj", [k \in {tree[2][n][1] : n \in DOMAIN tree[2]} |->
                          ValueOf(ObjOf(tree[2])[k])]>>
    ELSE tree

\* the value json.Unmarshal stores into an interface{} for a valid text
Decode(s) == ValueOf(TreeOf(s))

\* json.Compact on a valid text: insignificant whitespace is dropped,
\* string literals are copied
RECURSIVE CompactFrom(_, _, _, _)
CompactFrom(s, i, inStr, acc) ==
    IF i > Len(s) THEN acc
    ELSE IF inStr THEN
        IF s[i] = "\\" /\ i < Len(s)
        THEN CompactFrom(s, i + 2, TRUE, acc \o <<s[i], s[i + 1]>>)
        ELSE CompactFrom(s, i + 1, s[i] # "\"", Append(acc, s[i]))
    ELSE IF s[i] \in JSONSpace THEN CompactFrom(s, i + 1, FALSE, acc)
    ELSE CompactFrom(s, i + 1, s[i] = "\"", Append(acc, s[i]))

Compact(s) == CompactFrom(s, 1, FALSE, <<>>)

(***************************************************************************)
(* The regular expressions of json_repair.go.  The regexp package returns  *)
(* the leftmost match and, among the matches starting there, the one a     *)
(* backtracking engine finds first; ReplaceAll rewrites the successive     *)
(* non-overlapping matches.  "." does not match a newline and "$" matches  *)
(* only at the end of the text.                                            *)
(***************************************************************************)
Dots == <<".", ".", ".">>

\* regexp `\s*\.\.\.`, ReplaceAllString(src, "")
RECURSIVE StripEllipsisFrom(_, _, _)
StripEllipsisFrom(s, i, acc) ==
    IF i > Len(s) THEN acc
    ELSE IF MatchAt(s, SkipClass(s, i, ReSpace), Dots)
         THEN StripEllipsisFrom(s, SkipClass(s, i, ReSpace) + 3, acc)
         ELSE StripEllipsisFrom(s, i + 1, Append(acc, s[i]))

StripEllipsis(s) == StripEllipsisFrom(s, 1, <<>>)

NoMatch == [found |-> FALSE, group |-> <<>>]

\* regexp `\[(.*?)(?:\]|$)`, FindStringSubmatch: the first capture group
RECURSIVE ArrayBodyFrom(_, _)
ArrayBodyFrom(s, i) ==
    IF i > Len(s) THEN NoMatch
    ELSE IF s[i] # "[" THEN ArrayBodyFrom(s, i + 1)
    ELSE LET k == FindClass(s, i + 1, {"]", "\n"})
         IN  IF k <= Len(s) /\ s[k] = "\n"
             THEN ArrayBodyFrom(s, i + 1)
             ELSE [found |-> TRUE, group |-> Slice(s, i + 1, k - 1)]

ArrayBody(s) == ArrayBodyFrom(s, 1)

\* the shortest body after the "[" at index i that ends before a comma
\* followed by `\s*(?:\]|$)`; k is the candidate index of that comma
RECURSIVE DanglingCommaAt(_, _, _)
DanglingCommaAt(s, i, k) ==
    IF k > Len(s) THEN NoMatch
    ELSE IF s[k] = "," /\ (LET j == SkipClass(s, k + 1, ReSpace)
                           IN  j > Len(s) \/ s[j] = "]")
         THEN [found |-> TRUE, group |-> Slice(s, i + 1, k - 1)]
    ELSE IF s[k] = "\n" THEN NoMatch
    ELSE DanglingCommaAt(s, i, k + 1)

\* regexp `\[(.*?),\s*(?:\]|$)`, FindStringSubmatch: the first capture group
RECURSIVE DanglingCommaFrom(_, _)
DanglingCommaFrom(s, i) ==
    IF i > Len(s) THEN NoMatch
    ELSE IF s[i] = "[" /\ DanglingCommaAt(s, i, i + 1).found
         THEN DanglingCommaAt(s, i, i + 1)
    ELSE DanglingCommaFrom(s, i + 1)

DanglingComma(s) == DanglingCommaFrom(s, 1)

\* `"([^"]+)"` at index i: the index after the closing quote, or 0
QuotedNonEmptyEnd(s, i) ==
    IF i >= 1 /\ i <= Len(s) /\ s[i] = "\""
    THEN LET k == FindClass(s, i + 1, {"\""})
         IN  IF k <= Len(s) /\ k > i + 1 THEN k + 1 ELSE 0
    ELSE 0

\* `\s+` at index i: the index after the run of whitespace, or 0
SpacesEnd(s, i) ==
    IF i >= 1 /\ i <= Len(s) /\ s[i] \in ReSpace THEN SkipClass(s, i, ReSpace) ELSE 0

\* regexp `\[\s*"([^"]+)"\s+"([^"]+)"\s+"([^"]+)"\s+(\d+)` matched at index i
SpaceSeparatedAt(s, i) ==
    /\ s[i] = "["
    /\ LET q1 == QuotedNonEmptyEnd(s, SkipClass(s, i + 1, ReSpace))
           q2 == QuotedNonEmptyEnd(s, SpacesEnd(s, q1))
           q3 == QuotedNonEmptyEnd(s, SpacesEnd(s, q2))
           d  == SpacesEnd(s, q3)
       IN  /\ q1 # 0 /\ q2 # 0 /\ q3 # 0 /\ d # 0
           /\ d <= Len(s) /\ s[d] \in Digits

\* MatchString of that regexp
SpaceSeparatedMatch(s) == \E i \in DOMAIN s : SpaceSeparatedAt(s, i)

\* regexp `\\'t`, ReplaceAllString(src, "'t")
RECURSIVE FixApostropheFrom(_, _, _)
FixApostropheFrom(s, i, acc) ==
    IF i > Len(s) THEN acc
    ELSE IF MatchAt(s, i, <<"\\", "'", "t">>)
         THEN FixApostropheFrom(s, i + 3, acc \o <<"'", "t">>)
         ELSE FixApostropheFrom(s, i + 1, Append(acc, s[i]))

FixApostrophe(s) == FixApostropheFrom(s, 1, <<>>)

(***************************************************************************)
(* The rewrite passes.                                                     *)
(***************************************************************************)
\* replaceQuotes: the loop over the bytes of s with its two flags
RECURSIVE replaceQuotesFrom(_, _, _, _, _)
replaceQuotesFrom(s, i, inString, escape, result) ==
    IF i > Len(s) THEN result
    ELSE IF escape
         THEN replaceQuotesFrom(s, i + 1, inString, FALSE, Append(result, s[i]))
    ELSE IF s[i] = "\\"
         THEN replaceQuotesFrom(s, i + 1, inString, TRUE, Append(result, s[i]))
    ELSE IF s[i] = "\""
         THEN replaceQuotesFrom(s, i + 1, ~inString, FALSE, Append(result, s[i]))
    ELSE IF s[i] = "'"
         THEN replaceQuotesFrom(s, i + 1, ~inString, FALSE, Append(result, "\""))
    ELSE replaceQuotesFrom(s, i + 1, inString, FALSE, Append(result, s[i]))

replaceQuotes(s) == replaceQuotesFrom(s, 1, FALSE, FALSE, <<>>)

\* fixUnquotedKeys: regexp `([{,]\s*)([a-zA-Z0-9_]+)(\s*:)`,
\* ReplaceAllString(s, `${1}"${2}"${3}`)
RECURSIVE fixUnquotedKeysFrom(_, _, _)
fixUnquotedKeysFrom(s, i, acc) ==
    IF i > Len(s) THEN acc
    ELSE LET j == SkipClass(s, i + 1, ReSpace)
             k == SkipClass(s, j, WordChars)
             c == SkipClass(s, k, ReSpace)
         IN  IF s[i] \in {"{", ","} /\ k > j /\ c <= Len(s) /\ s[c] = ":"
             THEN fixUnquotedKeysFrom(s, c + 1,
                      acc \o Slice(s, i, j - 1) \o <<"\"">> \o Slice(s, j, k - 1)
                          \o <<"\"">> \o Slice(s, k, c))
             ELSE fixUnquotedKeysFrom(s, i + 1, Append(acc, s[i]))

fixUnquotedKeys(s) == fixUnquotedKeysFrom(s, 1, <<>>)

KwTrue == <<"t", "r", "u", "e">>

KwFalse == <<"f", "a", "l", "s", "e">>

KwNull == <<"n", "u", "l", "l">>

\* `(\s*[,}]|\s*$)` at index i: the index after the match, or 0
ValueTailEnd(s, i) ==
    LET c == SkipClass(s, i, ReSpace)
    IN  IF c > Len(s) THEN c
        ELSE IF s[c] \in {",", "}"} THEN c + 1
        ELSE 0

\* `(?i)(true|false|null)` at index i: the index after the keyword, or 0
KeywordEnd(s, i) ==
    IF MatchAt(ToLower(s), i, KwTrue) THEN i + 4
    ELSE IF MatchAt(ToLower(s), i, KwFalse) THEN i + 5
    ELSE IF MatchAt(ToLower(s), i, KwNull) THEN i + 4
    ELSE 0

\* regexp `(?i)` + kw, ReplaceAllString(m, kw)
RECURSIVE ReplaceFoldFrom(_, _, _, _)
ReplaceFoldFrom(m, kw, i, acc) ==
    IF i > Len(m) THEN acc
    ELSE IF MatchAt(ToLower(m), i, kw)
         THEN ReplaceFoldFrom(m, kw, i + Len(kw), acc \o kw)
         ELSE ReplaceFoldFrom(m, kw, i + 1, Append(acc, m[i]))

\* the replacement function of the first pass of fixUnquotedValues
LowerKeyword(m) ==
    IF Contains(ToLower(m), KwTrue) THEN ReplaceFoldFrom(m, KwTrue, 1, <<>>)
    ELSE IF Contains(ToLower(m), KwFalse) THEN ReplaceFoldFrom(m, KwFalse, 1, <<>>)
    ELSE IF Contains(ToLower(m), KwNull) THEN ReplaceFoldFrom(m, KwNull, 1, <<>>)
    ELSE m

\* regexp `(?i):\s*(true|false|null)(\s*[,}]|\s*$)`, ReplaceAllStringFunc
RECURSIVE normalizeKeywordsFrom(_, _, _)
normalizeKeywordsFrom(s, i, acc) ==
    IF i > Len(s) THEN acc
    ELSE LET k == KeywordEnd(s, SkipClass(s, i + 1, ReSpace))
             e == IF k = 0 THEN 0 ELSE ValueTailEnd(s, k)
         IN  IF s[i] = ":" /\ e # 0
             THEN normalizeKeywordsFrom(s, e, acc \o LowerKeyword(Slice(s, i, e - 1)))
             ELSE normalizeKeywordsFrom(s, i + 1, Append(acc, s[i]))

\* the function literal "process" of fixUnquotedValues applied to the match
\* s[i..e-1], whose identifier is s[j..k-1]
processValue(s, i, j, k, e) ==
    LET matchLower == ToLower(Slice(s, i, e - 1))
    IN  IF \/ Contains(matchLower, <<":", " ">> \o KwTrue)
           \/ Contains(matchLower, <<":", " ">> \o KwFalse)
           \/ Contains(matchLower, <<":", " ">> \o KwNull)
        THEN Slice(s, i, e - 1)
        ELSE Slice(s, i, j - 1) \o <<"\"">> \o Slice(s, j, k - 1) \o <<"\"">>
                 \o Slice(s, k, e - 1)

\* regexp `(:\s*)([a-zA-Z][a-zA-Z0-9_]*)(\s*[,}]|\s*$)`, ReplaceAllStringFunc
RECURSIVE quoteValuesFrom(_, _, _)
quoteValuesFrom(s, i, acc) ==
    IF i > Len(s) THEN acc
    ELSE LET j == SkipClass(s, i + 1, ReSpace)
             k == IF j <= Len(s) /\ s[j] \in Letters
                  THEN SkipClass(s, j, WordChars) ELSE 0
             e == IF k = 0 THEN 0 ELSE ValueTailEnd(s, k)
         IN  IF s[i] = ":" /\ e # 0
             THEN quoteValuesFrom(s, e, acc \o processValue(s, i, j, k, e))
             ELSE quoteValuesFrom(s, i + 1, Append(acc, s[i]))

\* regexp `:\s*([a-zA-Z][a-zA-Z0-9_]*)$`, ReplaceAllString(s, `: "$1"`)
RECURSIVE quoteLastValueFrom(_, _)
quoteLastValueFrom(s, i) ==
    IF i > Len(s) THEN s
    ELSE LET j == SkipClass(s, i + 1, ReSpace)
         IN  IF /\ s[i] = ":"
                /\ j <= Len(s) /\ s[j] \in Letters
                /\ SkipClass(s, j, WordChars) > Len(s)
             THEN Slice(s, 1, i - 1) \o <<":", " ", "\"">> \o Slice(s, j, Len(s))
                      \o <<"\"">>
             ELSE quoteLastValueFrom(s, i + 1)

fixUnquotedValues(s) ==
    quoteLastValueFrom(
        quoteValuesFrom(normalizeKeywordsFrom(s, 1, <<>>), 1, <<>>), 1)

\* regexp `,\s*` + closer, ReplaceAllString(s, closer)
RECURSIVE dropCommaBeforeFrom(_, _, _, _)
dropCommaBeforeFrom(s, closer, i, acc) ==
    IF i > Len(s) THEN acc
    ELSE LET j == SkipClass(s, i + 1, ReSpace)
         IN  IF s[i] = "," /\ j <= Len(s) /\ s[j] = closer
             THEN dropCommaBeforeFrom(s, closer, j + 1, Append(acc, closer))
             ELSE dropCommaBeforeFrom(s, closer, i + 1, Append(acc, s[i]))

removeTrailingCommas(s) ==
    dropCommaBeforeFrom(dropCommaBeforeFrom(s, "}", 1, <<>>), "]", 1, <<>>)

\* the stack of balanceBrackets after the characters from index i on
RECURSIVE bracketStackFrom(_, _, _)
bracketStackFrom(s, i, stack) ==
    IF i > Len(s) THEN stack
    ELSE IF s[i] \in {"{", "["}
         THEN bracketStackFrom(s, i + 1, Append(stack, s[i]))
    ELSE IF s[i] = "}" /\ Len(stack) > 0 /\ stack[Len(stack)] = "{"
         THEN bracketStackFrom(s, i + 1, Slice(stack, 1, Len(stack) - 1))
    ELSE IF s[i] = "]" /\ Len(stack) > 0 /\ stack[Len(stack)] = "["
         THEN bracketStackFrom(s, i + 1, Slice(stack, 1, Len(stack) - 1))
    ELSE bracketStackFrom(s, i + 1, stack)

\* the closers of a stack, first opened first (a faulty variant that
\* C29_AppendsClosers tells apart from lines 300-306)
RECURSIVE closersInOpeningOrder(_)
closersInOpeningOrder(stack) ==
    IF Len(stack) = 0 THEN <<>>
    ELSE <<IF stack[1] = "{" THEN "}" ELSE "]">>
             \o closersInOpeningOrder(Slice(stack, 2, Len(stack)))

\* the closers of a stack, last opened first
RECURSIVE closersOf(_)
closersOf(stack) ==
    IF Len(stack) = 0 THEN <<>>
    ELSE <<IF stack[Len(stack)] = "{" THEN "}" ELSE "]">>
             \o closersOf(Slice(stack, 1, Len(stack) - 1))

\* balanceBrackets appending nothing (a faulty variant that
\* C28_DegradedNeverTaken tells apart from lines 286-309)
balanceNothing(s) == s

balanceBrackets(s) == s \o closersOf(bracketStackFrom(s, 1, <<>>))

\* `("[^"]*"|\d+|\w+)` as the first token at index i, to be followed by
\* `\s+`: the index after the token, or 0
FirstTokenEnd(s, i) ==
    IF s[i] = "\""
    THEN LET k == FindClass(s, i + 1, {"\""})
         IN  IF k <= Len(s) THEN k + 1 ELSE 0
    ELSE IF s[i] \in WordChars THEN SkipClass(s, i, WordChars)
    ELSE 0

\* `("[^"]*"|\d+|\w+)` as the second token at index i, where the match
\* ends: the index after the token, or 0
SecondTokenEnd(s, i) ==
    IF i > Len(s) THEN 0
    ELSE IF s[i] = "\""
    THEN LET k == FindClass(s, i + 1, {"\""})
         IN  IF k <= Len(s) THEN k + 1 ELSE 0
    ELSE IF s[i] \in Digits THEN SkipClass(s, i, Digits)
    ELSE IF s[i] \in WordChars THEN SkipClass(s, i, WordChars)
    ELSE 0

\* regexp `("[^"]*"|\d+|\w+)\s+("[^"]*"|\d+|\w+)`,
\* ReplaceAllString(repaired, "$1,$2")
RECURSIVE insertCommasFrom(_, _, _)
insertCommasFrom(s, i, acc) ==
    IF i > Len(s) THEN acc
    ELSE LET a == FirstTokenEnd(s, i)
             b == IF a = 0 THEN 0 ELSE SpacesEnd(s, a)
             e == IF b = 0 THEN 0 ELSE SecondTokenEnd(s, b)
         IN  IF e # 0
             THEN insertCommasFrom(s, e,
                      acc \o Slice(s, i, a - 1) \o <<",">> \o Slice(s, b, e - 1))
             ELSE insertCommasFrom(s, i + 1, Append(acc, s[i]))

insertCommas(s) == insertCommasFrom(s, 1, <<>>)

\* the value alternative `("([^"]*)"|\d+|true|false|null)` at index i:
\* the index after it, or 0
PairValueEnd(s, i) ==
    IF i > Len(s) THEN 0
    ELSE IF s[i] = "\"" /\ FindClass(s, i + 1, {"\""}) <= Len(s)
         THEN FindClass(s, i + 1, {"\""}) + 1
    ELSE IF s[i] \in Digits THEN SkipClass(s, i, Digits)
    ELSE IF MatchAt(s, i, KwTrue) THEN i + 4
    ELSE IF MatchAt(s, i, KwFalse) THEN i + 5
    ELSE IF MatchAt(s, i, KwNull) THEN i + 4
    ELSE 0

\* regexp `"([^"]+)"\s*:\s*("([^"]*)"|\d+|true|false|null)`,
\* FindAllStringSubmatch: the pieces `"key":value` of the matches, in order
RECURSIVE keyValuePairsFrom(_, _, _)
keyValuePairsFrom(s, i, acc) ==
    IF i > Len(s) THEN acc
    ELSE LET q == QuotedNonEmptyEnd(s, i)
             c == IF q = 0 THEN 0 ELSE SkipClass(s, q, ReSpace)
             v == IF c = 0 \/ c > Len(s) THEN 0
                  ELSE IF s[c] = ":" THEN SkipClass(s, c + 1, ReSpace) ELSE 0
             e == IF v = 0 THEN 0 ELSE PairValueEnd(s, v)
         IN  IF e # 0
             THEN keyValuePairsFrom(s, e,
                      Append(acc, Slice(s, i, q - 1) \o <<":">> \o Slice(s, v, e - 1)))
             ELSE keyValuePairsFrom(s, i + 1, acc)

keyValuePairs(s) == keyValuePairsFrom(s, 1, <<>>)

(***************************************************************************)
(* json.Unmarshal into the target types of To: the struct                  *)
(* SearchToolParams {ID int; Query string} and the slice []int.            *)
(* A syntax error leaves the target untouched; a type mismatch is saved,   *)
(* decoding goes on, and the first saved error is returned at the end.     *)
(***************************************************************************)
ZeroStruct == [ID |-> 0, Query |-> <<>>]

ZeroSlice == [nil |-> TRUE, elems |-> <<>>]

\* var zero T
Zero(T) == IF T = "struct" THEN ZeroStruct ELSE ZeroSlice

DigitValue(c) == CHOOSE n \in 0..9 : <<"0", "1", "2", "3", "4", "5", "6", "7", "8", "9">>[n + 1] = c

RECURSIVE DigitsToNat(_)
DigitsToNat(d) ==
    IF Len(d) = 0 THEN 0
    ELSE DigitsToNat(Slice(d, 1, Len(d) - 1)) * 10 + DigitValue(d[Len(d)])

\* strconv.ParseInt on a number literal: no fraction and no exponent
IsIntLiteral(lit) ==
    \A n \in DOMAIN lit : lit[n] \in Digits \/ (n = 1 /\ lit[n] = "-")

IntOf(lit) ==
    IF lit[1] = "-" THEN 0 - DigitsToNat(Tail(lit)) ELSE DigitsToNat(lit)

\* the struct field a key names: an exact match, else a case-insensitive one
FieldFor(key) ==
    IF ToLower(key) = <<"i", "d">> THEN "ID"
    ELSE IF ToLower(key) = <<"q", "u", "e", "r", "y">> THEN "Query"
    ELSE "none"

\* decodes the members of an object, from the n-th on, into the struct
RECURSIVE UnmarshalMembers(_, _, _)
UnmarshalMembers(members, n, acc) ==
    IF n > Len(members) THEN acc
    ELSE LET f == FieldFor(members[n][1])
             v == members[n][2]
         IN  IF f = "none" \/ v[1] = "null"
             THEN UnmarshalMembers(members, n + 1, acc)
             ELSE IF f = "ID" /\ v[1] = "num" /\ IsIntLiteral(v[2])
             THEN UnmarshalMembers(members, n + 1,
                      [acc EXCEPT !.val.ID = IntOf(v[2])])
             ELSE IF f = "Query" /\ v[1] = "str"
             THEN UnmarshalMembers(members, n + 1,
                      [acc EXCEPT !.val.Query = v[2]])
             ELSE UnmarshalMembers(members, n + 1, [acc EXCEPT !.err = "type"])

UnmarshalStruct(tree, prior) ==
    IF tree[1] = "obj" THEN UnmarshalMembers(tree[2], 1, [err |-> "nil", val |-> prior])
    ELSE IF tree[1] = "null" THEN [err |-> "nil", val |-> prior]
    ELSE [err |-> "type", val |-> prior]

\* the elements of an array decoded into []int; an element that does not
\* decode keeps what the slice held at that index
SliceElems(elems, prior) ==
    [n \in DOMAIN elems |->
        IF elems[n][1] = "num" /\ IsIntLiteral(elems[n][2]) THEN IntOf(elems[n][2])
        ELSE IF n <= Len(prior.elems) THEN prior.elems[n] ELSE 0]

UnmarshalSlice(tree, prior) ==
    IF tree[1] = "arr"
    THEN [err |-> IF \A n \in DOMAIN tree[2] :
                        \/ tree[2][n][1] = "null"
                        \/ tree[2][n][1] = "num" /\ IsIntLiteral(tree[2][n][2])
                  THEN "nil" ELSE "type",
          val |-> [nil |-> FALSE, elems |-> SliceElems(tree[2], prior)]]
    ELSE IF tree[1] = "null" THEN [err |-> "nil", val |-> ZeroSlice]
    ELSE [err |-> "type", val |-> prior]

\* json.Unmarshal(text, &response) for response of type T holding prior
Unmarshal(text, T, prior) ==
    IF ~JSONValid(text) THEN [err |-> "syntax", val |-> prior]
    ELSE IF T = "struct" THEN UnmarshalStruct(TreeOf(text), prior)
    ELSE UnmarshalSlice(TreeOf(text), prior)

(***************************************************************************)
(* The helpers of To.                                                      *)
(***************************************************************************)
\* the loop of prepareJSONForUnmarshalling over data from index i
\* firstObjectFrom returning the text from the first brace on when the
\* braces never close (a faulty variant that C27_OnlyWrappedHandedOn tells
\* apart from lines 449-469)
RECURSIVE firstObjectOrRest(_, _, _, _)
firstObjectOrRest(data, i, startIndex, braceCount) ==
    IF i > Len(data)
    THEN IF startIndex # 0 THEN Slice(data, startIndex, Len(data)) ELSE <<>>
    ELSE IF data[i] = "{"
         THEN firstObjectOrRest(data, i + 1,
                  IF startIndex = 0 THEN i ELSE startIndex, braceCount + 1)
    ELSE IF data[i] = "}"
         THEN IF braceCount - 1 = 0 /\ startIndex # 0
              THEN Slice(data, startIndex, i)
              ELSE firstObjectOrRest(data, i + 1, startIndex, braceCount - 1)
    ELSE firstObjectOrRest(data, i + 1, startIndex, braceCount)

RECURSIVE firstObjectFrom(_, _, _, _)
firstObjectFrom(data, i, startIndex, braceCount) ==
    IF i > Len(data) THEN <<>>
    ELSE IF data[i] = "{"
         THEN firstObjectFrom(data, i + 1,
                  IF startIndex = 0 THEN i ELSE startIndex, braceCount + 1)
    ELSE IF data[i] = "}"
         THEN IF braceCount - 1 = 0 /\ startIndex # 0
              THEN Slice(data, startIndex, i)
              ELSE firstObjectFrom(data, i + 1, startIndex, braceCount - 1)
    ELSE firstObjectFrom(data, i + 1, startIndex, braceCount)

\* prepareJSONForUnmarshalling returning the trimmed text whatever it begins
\* and ends with (a faulty variant that C26_NoRepairErrorFromTo tells apart
\* from lines 438-470)
prepareTrimmedOnly(data) == TrimSpace(data)

prepareJSONForUnmarshalling(data) ==
    LET trimmedData == TrimSpace(data)
    IN  IF Len(trimmedData) = 0 THEN <<>>
        ELSE IF \/ trimmedData[1] = "{" /\ trimmedData[Len(trimmedData)] = "}"
                \/ trimmedData[1] = "[" /\ trimmedData[Len(trimmedData)] = "]"
             THEN trimmedData
        ELSE firstObjectFrom(data, 1, 0, 0)

\* bytes.ReplaceAll(data, "\n", "")
RemoveNewlines(data) == SelectSeq(data, LAMBDA c : c # "\n")

isJSONArray(data) ==
    LET k == SkipClass(data, 1, {" ", "\t", "\n", "\r"})
    IN  k <= Len(data) /\ data[k] = "["

\* isArrayType taking no type for an array (a faulty variant that
\* C5_ArrayGuard tells apart from lines 385-392)
isArrayTypeNever(T) == FALSE

\* reflect: whether T is an array or a slice
isArrayType(T) == T = "slice"

(***************************************************************************)
(* The inputs.  A call is repairJSON(raw) or To[T](raw); raw is any text   *)
(* over Alphabet of at most MaxLen characters, a JSON document of nesting  *)
(* depth at most MaxDepth (as it is, or written with single quotes), or    *)
(* one of the sample texts of the tests and of the documentation.          *)
(***************************************************************************)
Alphabet == {"{", "}", "[", "]", "\"", ",", ":", "a", "1", " "}

Texts == UNION {[1..n -> Alphabet] : n \in 0..MaxLen}

Scalars == {Chars("1"), Chars("\"a\""), Chars("\"b c\""), Chars("true"), Chars("null")}

RECURSIVE Documents(_)
Documents(depth) ==
    IF depth = 0 THEN Scalars
    ELSE LET inner == Documents(depth - 1)
         IN  inner
             \cup {Chars("[") \o x \o Chars("]") : x \in inner}
             \cup {Chars("[") \o x \o Chars(", ") \o y \o Chars("]") :
                      x \in inner, y \in Scalars}
             \cup {Chars("{\"k\": ") \o x \o Chars("}") : x \in inner}
             \cup {Chars("{\"k\": ") \o y \o Chars(", \"j\": ") \o x \o Chars("}") :
                      x \in inner, y \in Scalars}

\* a document written with single quotes instead of double quotes
SingleQuoted(doc) == [n \in DOMAIN doc |-> IF doc[n] = "\"" THEN "'" ELSE doc[n]]

Samples ==
    { Chars("{\"name\": \"John\", \"age\": 30}"),
      FenceJSON \o Chars("\n{\"name\": \"John\", \"age\": 30}\n") \o Fence,
      Chars("{name: \"John\", age: 30}"),
      Chars("{'name': 'John', 'age': 30}"),
      Chars("{\"name\": \"John\", \"age\": 30,}"),
      Chars("[1, 2, 3,]"),
      Chars("{\"name\": \"John\", \"age\": 30"),
      Chars("[1, 2, 3"),
      Chars("{\"name\": John, \"age\": 30}"),
      Chars("{\"name\": 'John', 'age': 30}"),
      Chars("{\"p\": {name: \"John\", age: 30}}"),
      Chars("[{name: \"Jo\", age: 30}, {age: 25}]"),
      Chars("{u: [{n: 'J', h: ['r', 's',]}],}"),
      Chars("{active: true, verified: false}"),
      Chars("{name: \"John\", address: null}"),
      Chars("{\"message\": \"He said \\\"Hello\\\"\"}"),
      Chars("   {  }   "),
      Chars("[1, 2, 3,"),
      Chars("[1, 2, 3, ...]"),
      Chars("[\"a\" \"b\" \"c\" 1"),
      Chars("{\"key1\": {\"key2\": [1, 2, 3"),
      Chars("\n"),
      Chars("[[1\n\n]"),
      Chars("string"),
      Chars("stringbeforeobject {}"),
      Chars("justsomeplaintext"),
      Chars("{ID: 123, 'Query': 'another query'}"),
      Chars("{\"ID\": 42, \"Query\": \"test query\"}"),
      Chars("{\"a\": [1, 2, 3"),
      Chars("{name: John, age: 30}"),
      Chars("{\"a\":1,}"),
      Chars("[1 2 3]"),
      Chars("[[1],[2],...]"),
      Chars("[a..."),
      Chars("['a b']"),
      Chars("{'Query': 'x,y:z'}"),
      Chars("x [1, 2] y"),
      Chars("[\"x\" \"y\" \"z\" 7]"),
      Chars("{\"ID\": \"7\", \"Query\": \"q\"}"),
      Chars("{\"Query\": \"q\", \"ID\": 1.5}"),
      Chars("[1, \"a\", 3]"),
      Chars("{\"a\": 1} trailing"),
      Chars("see {\"ID\": 5} and {\"ID\": 6}"),
      Chars("\"abc"),
      Chars("\"abc\""),
      Chars("It\\'t"),
      Chars("-12.50e+3"),
      Chars("[1,,]"),
      Chars("x[1]") \o Fence \o Fence,
      Chars("{a: \"it's\"}") }

\* a text with its single quotes written as double quotes
DoubleQuoted(text) == [n \in DOMAIN text |-> IF text[n] = "'" THEN "\"" ELSE text[n]]

\* payloads for the struct {ID int; Query string} of the integration test:
\* the number written for ID and the contents of Query
IDTexts == {Chars("1"), Chars("123")}

QueryTexts == {Chars("q"), Chars("another query"), Chars("x,y:z"), Chars("a: b,c")}

\* the payload as well-formed JSON
WellFormedPayload(id, q) ==
    Chars("{\"ID\": ") \o id \o Chars(", \"Query\": \"") \o q \o Chars("\"}")

\* the payload with a bare key, a single-quoted key and a single-quoted value
DefectivePayload(id, q) ==
    Chars("{ID: ") \o id \o Chars(", 'Query': '") \o q \o Chars("'}")

StructPayloads ==
    {<<DefectivePayload(id, q), WellFormedPayload(id, q)>> : id \in IDTexts, q \in QueryTexts}

\* the number of closing brackets and braces at the end of doc
RECURSIVE TrailingClosers(_)
TrailingClosers(doc) ==
    IF Len(doc) > 0 /\ doc[Len(doc)] \in {"}", "]"}
    THEN 1 + TrailingClosers(Slice(doc, 1, Len(doc) - 1))
    ELSE 0

\* the documents with some or all of their trailing closers removed,
\* each with the document it was cut from
TruncatedDocuments ==
    UNION { {<<Slice(d, 1, Len(d) - k), d>> : k \in 1..TrailingClosers(d)} :
               d \in Documents(MaxDepth) }

\* values of an object written without quotes, each with its JSON spelling:
\* a number, a quoted string, bare identifiers other than true, false, null
BareValues ==
    { <<Chars("30"), Chars("30")>>,
      <<Chars("\"a\""), Chars("\"a\"")>>,
      <<Chars("John"), Chars("\"John\"")>>,
      <<Chars("nullable"), Chars("\"nullable\"")>> }

\* objects with bare keys (alone, nested, inside an array), each with the
\* JSON text that has every key and every bare value quoted
BareObjects ==
    UNION { { <<Chars("{name: ") \o v[1] \o Chars("}"),
                Chars("{\"name\": ") \o v[2] \o Chars("}")>>,
              <<Chars("{name: ") \o v[1] \o Chars(", age: 30}"),
                Chars("{\"name\": ") \o v[2] \o Chars(", \"age\": 30}")>>,
              <<Chars("{p: {name: ") \o v[1] \o Chars("}}"),
                Chars("{\"p\": {\"name\": ") \o v[2] \o Chars("}}")>>,
              <<Chars("[{name: ") \o v[1] \o Chars("}]"),
                Chars("[{\"name\": ") \o v[2] \o Chars("}]")>> } :
            v \in BareValues }

\* arrays of three quoted strings and a number separated by spaces, each
\* with the array of the same elements separated by commas
SpacedArrays ==
    { <<Chars("[\"") \o x \o Chars("\" \"") \o y \o Chars("\" \"c\" ") \o n \o Chars("]"),
        Chars("[\"") \o x \o Chars("\", \"") \o y \o Chars("\", \"c\", ") \o n \o Chars("]")>> :
          x \in {Chars("a"), Chars("x")}, y \in {Chars("b"), Chars("y")},
          n \in {Chars("1"), Chars("7")} }

\* the spellings of the keywords, each with the keyword
KeywordSpellings ==
    { <<Chars("true"), Chars("true")>>, <<Chars("True"), Chars("true")>>,
      <<Chars("FALSE"), Chars("false")>>, <<Chars("null"), Chars("null")>>,
      <<Chars("Null"), Chars("null")>> }

\* objects whose value is a keyword in some spelling, after a colon with
\* no, one or two spaces and before a brace, a comma or the end of the
\* text, each with the JSON text that has the lowercase keyword
KeywordObjects ==
    { <<Chars("{\"a\":") \o sp \o w[1] \o tl[1], Chars("{\"a\":") \o w[2] \o tl[2]>> :
          sp \in {<<>>, Chars(" "), Chars("  ")},
          w \in KeywordSpellings,
          tl \in { <<Chars("}"), Chars("}")>>,
                   <<Chars(", \"b\": 1}"), Chars(", \"b\": 1}")>>,
                   <<<<>>, Chars("}")>> } }

\* well-formed JSON elements: a number, strings, a nested array, an object
EllipsisElements ==
    { Chars("1"), Chars("\"a\""), Chars("\"a, b\""), Chars("[1]"), Chars("{\"k\": 1}") }

\* arrays of one or two well-formed elements followed by a separator and a
\* literal ..., with and without the closing bracket, each with the array
\* of the elements
EllipsisArrays ==
    UNION { { <<Chars("[") \o x \o Chars(", ...") \o cl, Chars("[") \o x \o Chars("]")>>,
              <<Chars("[") \o x \o Chars(", ") \o y \o Chars(", ...") \o cl,
                Chars("[") \o x \o Chars(", ") \o y \o Chars("]")>> } :
            x \in EllipsisElements, y \in EllipsisElements, cl \in {<<>>, Chars("]")} }

Inputs ==
    Texts \cup Samples \cup Documents(MaxDepth)
          \cup {SingleQuoted(d) : d \in Documents(MaxDepth)}
          \cup {p[1] : p \in StructPayloads} \cup {p[2] : p \in StructPayloads}
          \cup {p[1] : p \in TruncatedDocuments}
          \cup {p[1] : p \in BareObjects}
          \cup {p[1] : p \in SpacedArrays}
          \cup {p[1] : p \in KeywordObjects}
          \cup {p[1] : p \in EllipsisArrays}

\* the entry points and the type arguments of To
Calls == {<<"repairJSON", "none">>, <<"To", "struct">>, <<"To", "slice">>}

(***************************************************************************)
(* The state.                                                              *)
(***************************************************************************)
VARIABLES
    entry,      \* the function called: "repairJSON" or "To"
    T,          \* the type argument of To
    raw,        \* the argument of the call
    pc,         \* the statement the call is at
    arg,        \* repairJSON: the argument src it was called with
    src,        \* repairJSON: the locals src and repaired
    ret,        \* repairJSON: what it returned
    data,       \* To: the local data
    response,   \* To: the local response
    out,        \* To: what it returned
    log,        \* the decodes, repair calls and rewrite passes so far
    other,      \* the frame of a second call that runs concurrently
    fields,     \* Schema.Fields: the fields declared, in order
    marks       \* per field, the last of Required and Optional applied

vars == <<entry, T, raw, pc, arg, src, ret, data, response, out, log, other, fields, marks>>

NoReturn == [done |-> FALSE, str |-> <<>>, err |-> "nil"]

NoResult == [done |-> FALSE, val |-> ZeroStruct, err |-> "nil"]

\* the frame of a call of function e with type argument t and argument text
\* before its first statement
Frame(e, t, text) ==
    [ entry |-> e, T |-> t, raw |-> text,
      pc |-> IF e = "To" THEN "prepare" ELSE IF e = "repairJSON" THEN "emptyCheck" ELSE "done",
      arg |-> IF e = "To" THEN <<>> ELSE text,
      src |-> IF e = "To" THEN <<>> ELSE text,
      ret |-> NoReturn, data |-> <<>>, response |-> Zero(t), out |-> NoResult,
      log |-> <<>> ]

\* no second call
NoCall == Frame("none", "none", <<>>)

Init ==
    /\ raw \in Inputs
    /\ \E call \in Calls : entry = call[1] /\ T = call[2]
    /\ pc = IF entry = "To" THEN "prepare" ELSE "emptyCheck"
    /\ arg = IF entry = "To" THEN <<>> ELSE raw
    /\ src = IF entry = "To" THEN <<>> ELSE raw
    /\ ret = NoReturn
    /\ data = <<>>
    /\ response = Zero(T)
    /\ out = NoResult
    /\ log = <<>>
    /\ other = NoCall
    /\ fields = <<>>
    /\ marks = <<>>

(***************************************************************************)
(* repairJSON, statement by statement.                                     *)
(***************************************************************************)
\* return str, err
Return(str, err) ==
    /\ ret' = [done |-> TRUE, str |-> str, err |-> err]
    /\ pc' = IF entry = "To" THEN "repairReturned" ELSE "done"
    /\ src' = src

\* fall through to the statement at label next with src set to text
Goto(next, text) ==
    /\ pc' = next
    /\ src' = text
    /\ ret' = ret

ToFrame == UNCHANGED <<entry, T, raw, arg, data, response, out, other, fields, marks>>

\* lines 24-26
EmptyCheck ==
    /\ pc = "emptyCheck"
    /\ IF src = <<>> THEN Return(<<>>, "nil") ELSE Goto("preTrim", src)
    /\ UNCHANGED log /\ ToFrame

\* lines 28-31
preTrimmed(text) ==
    TrimSpace(TrimSuffix(TrimPrefix(TrimSpace(text), FenceJSON), Fence))

PreTrim ==
    /\ pc = "preTrim"
    /\ Goto("degenerate", preTrimmed(src))
    /\ UNCHANGED log /\ ToFrame

\* isDegenerate without the case of the lone quote (a faulty variant that
\* C4_MinimalInputs tells apart from lines 33-41)
isDegenerateNoQuote(text) ==
    \/ text = Chars("\n") \/ text = Chars(" ")
    \/ text = Chars("]") \/ text = Chars("}")

\* lines 33-41
isDegenerate(text) ==
    \/ text = Chars("\"")
    \/ text = Chars("\n") \/ text = Chars(" ")
    \/ text = Chars("]") \/ text = Chars("}")

Degenerate ==
    /\ pc = "degenerate"
    /\ IF isDegenerate(src) THEN Return(Chars("\"\""), "nil") ELSE Goto("anchor", src)
    /\ UNCHANGED log /\ ToFrame

\* lines 43-50
needsAnchor(text) ==
    /\ ~HasPrefix(text, Chars("{"))
    /\ ~HasPrefix(text, Chars("["))
    /\ ~HasPrefix(text, Chars("\""))

\* Anchor keeping the text before the first bracket (a faulty variant that
\* C15_AnchoredSuffix tells apart from lines 43-50)
AnchorKeeping ==
    /\ pc = "anchor"
    /\ IF needsAnchor(src)
       THEN IF IndexAny(src, {"{", "["}) >= 1
            THEN Goto("fastPath", src)
            ELSE Return(Chars("\"\""), "nil")
       ELSE Goto("fastPath", src)
    /\ UNCHANGED log /\ ToFrame

\* Anchor returning the repair failure for a text without brackets (a faulty
\* variant that C3_PlainText tells apart from lines 43-50)
AnchorFailing ==
    /\ pc = "anchor"
    /\ IF needsAnchor(src)
       THEN IF IndexAny(src, {"{", "["}) >= 1
            THEN Goto("fastPath", Slice(src, IndexAny(src, {"{", "["}), Len(src)))
            ELSE Return(<<>>, "ErrJSONRepairFailed")
       ELSE Goto("fastPath", src)
    /\ UNCHANGED log /\ ToFrame

Anchor ==
    /\ pc = "anchor"
    /\ IF needsAnchor(src)
       THEN IF IndexAny(src, {"{", "["}) >= 1
            THEN Goto("fastPath", Slice(src, IndexAny(src, {"{", "["}), Len(src)))
            ELSE Return(Chars("\"\""), "nil")
       ELSE Goto("fastPath", src)
    /\ UNCHANGED log /\ ToFrame

\* lines 52-59 (json.Compact does not fail on a valid text)
FastPath ==
    /\ pc = "fastPath"
    /\ IF JSONValid(src) THEN Return(Compact(src), "nil") ELSE Goto("skeleton", src)
    /\ UNCHANGED log /\ ToFrame

\* lines 62-70
Skeleton ==
    /\ pc = "skeleton"
    /\ IF src = Chars("[") THEN Return(Chars("[]"), "nil")
       ELSE IF src = Chars("{") THEN Return(Chars("{}"), "nil")
       ELSE IF src = Chars("[{]") THEN Return(Chars("[{}]"), "nil")
       ELSE Goto("ellipsis", src)
    /\ UNCHANGED log /\ ToFrame

\* lines 77-84: the trimmed, non-empty pieces of the array body
cleanElements(body) ==
    SelectSeq([n \in DOMAIN SplitComma(body) |-> TrimSpace(SplitComma(body)[n])],
              LAMBDA e : e # <<>>)

\* lines 72-89
Ellipsis ==
    /\ pc = "ellipsis"
    /\ IF HasPrefix(src, Chars("[")) /\ Contains(src, Dots)
       THEN LET stripped == StripEllipsis(src)
                matches  == ArrayBody(stripped)
            IN  IF matches.found /\ Len(cleanElements(matches.group)) > 0
                THEN /\ Return(Chars("[") \o JoinComma(cleanElements(matches.group))
                                   \o Chars("]"), "nil")
                ELSE Goto("danglingComma", stripped)
       ELSE Goto("danglingComma", src)
    /\ UNCHANGED log /\ ToFrame

\* lines 91-97
DanglingCommaStep ==
    /\ pc = "danglingComma"
    /\ IF /\ HasPrefix(src, Chars("["))
          /\ HasSuffix(TrimSpace(src), Chars(","))
          /\ DanglingComma(src).found
       THEN Return(Chars("[") \o DanglingComma(src).group \o Chars("]"), "nil")
       ELSE Goto("spaceSeparated", src)
    /\ UNCHANGED log /\ ToFrame

\* lines 99-104
SpaceSeparated ==
    /\ pc = "spaceSeparated"
    /\ IF /\ HasPrefix(src, Chars("[\"")) \/ HasPrefix(src, Chars("['"))
          /\ SpaceSeparatedMatch(src)
       THEN Return(Chars("[\"a\",\"b\",\"c\",1]"), "nil")
       ELSE Goto("apostrophe", src)
    /\ UNCHANGED log /\ ToFrame

\* lines 106-109
Apostrophe ==
    /\ pc = "apostrophe"
    /\ Goto("incomplete", FixApostrophe(src))
    /\ UNCHANGED log /\ ToFrame

\* lines 111-116
Incomplete ==
    /\ pc = "incomplete"
    /\ IF HasPrefix(src, Chars("{\"")) /\ Len(src) <= 2 THEN Return(Chars("{}"), "nil")
       ELSE IF HasPrefix(src, Chars("[\"")) /\ Len(src) <= 2 THEN Return(Chars("[]"), "nil")
       ELSE Goto("replaceQuotes", src)
    /\ UNCHANGED log /\ ToFrame

\* line 119
ReplaceQuotes ==
    /\ pc = "replaceQuotes"
    /\ Goto("fixUnquotedKeys", replaceQuotes(src))
    /\ log' = Append(log, "replaceQuotes")
    /\ ToFrame

\* line 120
FixUnquotedKeys ==
    /\ pc = "fixUnquotedKeys"
    /\ Goto("fixUnquotedValues", fixUnquotedKeys(src))
    /\ log' = Append(log, "fixUnquotedKeys")
    /\ ToFrame

\* line 121
FixUnquotedValues ==
    /\ pc = "fixUnquotedValues"
    /\ Goto("removeTrailingCommas", fixUnquotedValues(src))
    /\ log' = Append(log, "fixUnquotedValues")
    /\ ToFrame

\* line 122
RemoveTrailingCommas ==
    /\ pc = "removeTrailingCommas"
    /\ Goto("balanceBrackets", removeTrailingCommas(src))
    /\ log' = Append(log, "removeTrailingCommas")
    /\ ToFrame

\* BalanceBrackets going on to the comma insertion without the ellipsis
\* cleanup (a faulty variant that C14_TerminatesInOrder tells apart from
\* lines 123-126)
BalanceBracketsSkipping ==
    /\ pc = "balanceBrackets"
    /\ Goto("insertCommas", balanceBrackets(src))
    /\ log' = Append(log, "balanceBrackets")
    /\ ToFrame

\* line 123
BalanceBrackets ==
    /\ pc = "balanceBrackets"
    /\ Goto("ellipsisCleanup", balanceBrackets(src))
    /\ log' = Append(log, "balanceBrackets")
    /\ ToFrame

\* lines 124-126
EllipsisCleanup ==
    /\ pc = "ellipsisCleanup"
    /\ Goto("insertCommas", IF Contains(src, Dots) THEN StripEllipsis(src) ELSE src)
    /\ log' = Append(log, "ellipsisCleanup")
    /\ ToFrame

\* lines 128-131
InsertCommas ==
    /\ pc = "insertCommas"
    /\ Goto("recheck", IF HasPrefix(src, Chars("[")) THEN insertCommas(src) ELSE src)
    /\ log' = Append(log, "insertCommas")
    /\ ToFrame

\* lines 133-141
Recheck ==
    /\ pc = "recheck"
    /\ IF JSONValid(src) THEN Return(Compact(src), "nil") ELSE Goto("degraded", src)
    /\ log' = Append(log, "recheck")
    /\ ToFrame

\* lines 143-145
degradedGuard(text) ==
    /\ ~JSONValid(text)
    /\ HasPrefix(text, Chars("{"))
    /\ \/ Count(text, "{") > Count(text, "}")
       \/ Count(text, "[") > Count(text, "]")

\* lines 143-162
Degraded ==
    /\ pc = "degraded"
    /\ IF degradedGuard(src) /\ Len(keyValuePairs(src)) > 0
       THEN Goto("recheckDegraded",
                 Chars("{") \o JoinComma(keyValuePairs(src)) \o Chars("}"))
       ELSE Goto("recheckDegraded", src)
    /\ UNCHANGED log /\ ToFrame

\* lines 164-172
RecheckDegraded ==
    /\ pc = "recheckDegraded"
    /\ IF JSONValid(src) THEN Return(Compact(src), "nil") ELSE Goto("fallback", src)
    /\ UNCHANGED log /\ ToFrame

\* Fallback returning the repair failure for an array that is still invalid
\* (a faulty variant that C25_ErrorOnlyForQuoted tells apart from lines
\* 174-185)
FallbackFailing ==
    /\ pc = "fallback"
    /\ IF ~JSONValid(src) /\ HasPrefix(src, Chars("{")) THEN Return(Chars("{}"), "nil")
       ELSE Return(<<>>, "ErrJSONRepairFailed")
    /\ UNCHANGED log /\ ToFrame

\* lines 174-185
Fallback ==
    /\ pc = "fallback"
    /\ IF ~JSONValid(src) /\ HasPrefix(src, Chars("{")) THEN Return(Chars("{}"), "nil")
       ELSE IF ~JSONValid(src) /\ HasPrefix(src, Chars("[")) THEN Return(Chars("[]"), "nil")
       ELSE Return(<<>>, "ErrJSONRepairFailed")
    /\ UNCHANGED log /\ ToFrame

(***************************************************************************)
(* To, statement by statement.                                             *)
(***************************************************************************)
\* return value, err
Result(value, err) ==
    /\ out' = [done |-> TRUE, val |-> value, err |-> err]
    /\ pc' = "done"

RepairFrame == UNCHANGED <<entry, T, raw, arg, src, ret, other, fields, marks>>

\* lines 373-374
Prepare ==
    /\ pc = "prepare"
    /\ data' = RemoveNewlines(prepareJSONForUnmarshalling(raw))
    /\ pc' = "emptyInput"
    /\ log' = Append(log, "prepare")
    /\ UNCHANGED <<response, out>> /\ RepairFrame

\* EmptyInput going on to the decode with an empty text (a faulty variant
\* that C8_SingleRepairCycle tells apart from lines 376-379)
EmptyInputIgnored ==
    /\ pc = "emptyInput"
    /\ pc' = "unmarshal" /\ out' = out
    /\ UNCHANGED <<data, response, log>> /\ RepairFrame

\* lines 376-379
EmptyInput ==
    /\ pc = "emptyInput"
    /\ IF Len(data) = 0
       THEN Result(Zero(T), "empty input string")
       ELSE pc' = "unmarshal" /\ out' = out
    /\ UNCHANGED <<data, response, log>> /\ RepairFrame

\* lines 381-383 and 411
UnmarshalDirect ==
    /\ pc = "unmarshal"
    /\ LET r == Unmarshal(data, T, response)
       IN  /\ response' = r.val
           /\ IF r.err = "nil" THEN Result(r.val, "nil")
              ELSE pc' = "arrayGuard" /\ out' = out
    /\ log' = Append(log, "unmarshal")
    /\ UNCHANGED data /\ RepairFrame

\* lines 385-392
ArrayGuard ==
    /\ pc = "arrayGuard"
    /\ IF isArrayType(T) /\ ~isJSONArray(data)
       THEN Result(Zero(T), "ErrExpectedJSONArray")
       ELSE pc' = "repairCall" /\ out' = out
    /\ UNCHANGED <<data, response, log>> /\ RepairFrame

\* line 394: the call of repairJSON(string(data))
RepairCall ==
    /\ pc = "repairCall"
    /\ arg' = data
    /\ src' = data
    /\ pc' = "emptyCheck"
    /\ log' = Append(log, "repairJSON")
    /\ UNCHANGED <<entry, T, raw, ret, data, response, out, other, fields, marks>>

\* lines 395-403
RepairReturned ==
    /\ pc = "repairReturned"
    /\ IF ret.err # "nil" THEN Result(Zero(T), "failed to repair JSON")
       ELSE IF ret.str = <<>> THEN Result(Zero(T), "JSON repair resulted in empty string")
       ELSE pc' = "unmarshalRepaired" /\ out' = out
    /\ UNCHANGED <<data, response, log>> /\ RepairFrame

\* UnmarshalRepaired returning response on a failed decode (a faulty variant
\* that C7_AllOrNothing tells apart from lines 405-411)
UnmarshalRepairedPartial ==
    /\ pc = "unmarshalRepaired"
    /\ LET r == Unmarshal(ret.str, T, response)
       IN  /\ response' = r.val
           /\ IF r.err = "nil" THEN Result(r.val, "nil")
              ELSE Result(r.val, "failed to parse repaired JSON into struct")
    /\ log' = Append(log, "unmarshal")
    /\ UNCHANGED data /\ RepairFrame

\* lines 405-411
UnmarshalRepaired ==
    /\ pc = "unmarshalRepaired"
    /\ LET r == Unmarshal(ret.str, T, response)
       IN  /\ response' = r.val
           /\ IF r.err = "nil" THEN Result(r.val, "nil")
              ELSE Result(Zero(T), "failed to parse repaired JSON into struct")
    /\ log' = Append(log, "unmarshal")
    /\ UNCHANGED data /\ RepairFrame

Next ==
    \/ EmptyCheck
    \/ PreTrim
    \/ Degenerate
    \/ Anchor
    \/ FastPath
    \/ Skeleton
    \/ Ellipsis
    \/ DanglingCommaStep
    \/ SpaceSeparated
    \/ Apostrophe
    \/ Incomplete
    \/ ReplaceQuotes
    \/ FixUnquotedKeys
    \/ FixUnquotedValues
    \/ RemoveTrailingCommas
    \/ BalanceBrackets
    \/ EllipsisCleanup
    \/ InsertCommas
    \/ Recheck
    \/ Degraded
    \/ RecheckDegraded
    \/ Fallback
    \/ Prepare
    \/ EmptyInput
    \/ UnmarshalDirect
    \/ ArrayGuard
    \/ RepairCall
    \/ RepairReturned
    \/ UnmarshalRepaired

Spec == Init /\ [][Next]_vars

\* the statements of repairJSON and To a call can be at
Labels ==
    { "emptyCheck", "preTrim", "degenerate", "anchor", "fastPath", "skeleton",
      "ellipsis", "danglingComma", "spaceSeparated", "apostrophe", "incomplete",
      "replaceQuotes", "fixUnquotedKeys", "fixUnquotedValues",
      "removeTrailingCommas", "balanceBrackets", "ellipsisCleanup",
      "insertCommas", "recheck", "degraded", "recheckDegraded", "fallback",
      "prepare", "emptyInput", "unmarshal", "arrayGuard", "repairCall",
      "repairReturned", "unmarshalRepaired", "done" }

\* control moves on to another statement
Advance == pc # "done" /\ pc' \in Labels \ {pc}

\* a call runs on until it has returned: a goroutine that can execute its
\* next statement eventually does (neither function waits for anything)
FairSpec == Spec /\ WF_pc(Advance)

(***************************************************************************)
(* The functions repairJSON and To compute: the statements above composed, *)
(* each from its label on.  Neither function reads anything but its        *)
(* argument, the regexps it compiles itself and the two error values that  *)
(* are never assigned.                                                     *)
(***************************************************************************)
Returned(str, err) == [done |-> TRUE, str |-> str, err |-> err]

\* what repairJSON returns once it is at the statement label with src = s
RECURSIVE RunFrom(_, _)
RunFrom(label, s) ==
    CASE label = "emptyCheck" ->
            IF s = <<>> THEN Returned(<<>>, "nil") ELSE RunFrom("preTrim", s)
      [] label = "preTrim" -> RunFrom("degenerate", preTrimmed(s))
      [] label = "degenerate" ->
            IF isDegenerate(s) THEN Returned(Chars("\"\""), "nil") ELSE RunFrom("anchor", s)
      [] label = "anchor" ->
            IF needsAnchor(s)
            THEN IF IndexAny(s, {"{", "["}) >= 1
                 THEN RunFrom("fastPath", Slice(s, IndexAny(s, {"{", "["}), Len(s)))
                 ELSE Returned(Chars("\"\""), "nil")
            ELSE RunFrom("fastPath", s)
      [] label = "fastPath" ->
            IF JSONValid(s) THEN Returned(Compact(s), "nil") ELSE RunFrom("skeleton", s)
      [] label = "skeleton" ->
            IF s = Chars("[") THEN Returned(Chars("[]"), "nil")
            ELSE IF s = Chars("{") THEN Returned(Chars("{}"), "nil")
            ELSE IF s = Chars("[{]") THEN Returned(Chars("[{}]"), "nil")
            ELSE RunFrom("ellipsis", s)
      [] label = "ellipsis" ->
            IF HasPrefix(s, Chars("[")) /\ Contains(s, Dots)
            THEN IF /\ ArrayBody(StripEllipsis(s)).found
                    /\ Len(cleanElements(ArrayBody(StripEllipsis(s)).group)) > 0
                 THEN Returned(Chars("[")
                          \o JoinComma(cleanElements(ArrayBody(StripEllipsis(s)).group))
                          \o Chars("]"), "nil")
                 ELSE RunFrom("danglingComma", StripEllipsis(s))
            ELSE RunFrom("danglingComma", s)
      [] label = "danglingComma" ->
            IF /\ HasPrefix(s, Chars("["))
               /\ HasSuffix(TrimSpace(s), Chars(","))
               /\ DanglingComma(s).found
            THEN Returned(Chars("[") \o DanglingComma(s).group \o Chars("]"), "nil")
            ELSE RunFrom("spaceSeparated", s)
      [] label = "spaceSeparated" ->
            IF /\ HasPrefix(s, Chars("[\"")) \/ HasPrefix(s, Chars("['"))
               /\ SpaceSeparatedMatch(s)
            THEN Returned(Chars("[\"a\",\"b\",\"c\",1]"), "nil")
            ELSE RunFrom("apostrophe", s)
      [] label = "apostrophe" -> RunFrom("incomplete", FixApostrophe(s))
      [] label = "incomplete" ->
            IF HasPrefix(s, Chars("{\"")) /\ Len(s) <= 2 THEN Returned(Chars("{}"), "nil")
            ELSE IF HasPrefix(s, Chars("[\"")) /\ Len(s) <= 2 THEN Returned(Chars("[]"), "nil")
            ELSE RunFrom("replaceQuotes", s)
      [] label = "replaceQuotes" -> RunFrom("fixUnquotedKeys", replaceQuotes(s))
      [] label = "fixUnquotedKeys" -> RunFrom("fixUnquotedValues", fixUnquotedKeys(s))
      [] label = "fixUnquotedValues" -> RunFrom("removeTrailingCommas", fixUnquotedValues(s))
      [] label = "removeTrailingCommas" -> RunFrom("balanceBrackets", removeTrailingCommas(s))
      [] label = "balanceBrackets" -> RunFrom("ellipsisCleanup", balanceBrackets(s))
      [] label = "ellipsisCleanup" ->
            RunFrom("insertCommas", IF Contains(s, Dots) THEN StripEllipsis(s) ELSE s)
      [] label = "insertCommas" ->
            RunFrom("recheck", IF HasPrefix(s, Chars("[")) THEN insertCommas(s) ELSE s)
      [] label = "recheck" ->
            IF JSONValid(s) THEN Returned(Compact(s), "nil") ELSE RunFrom("degraded", s)
      [] label = "degraded" ->
            IF degradedGuard(s) /\ Len(keyValuePairs(s)) > 0
            THEN RunFrom("recheckDegraded",
                         Chars("{") \o JoinComma(keyValuePairs(s)) \o Chars("}"))
            ELSE RunFrom("recheckDegraded", s)
      [] label = "recheckDegraded" ->
            IF JSONValid(s) THEN Returned(Compact(s), "nil") ELSE RunFrom("fallback", s)
      [] label = "fallback" ->
            IF ~JSONValid(s) /\ HasPrefix(s, Chars("{")) THEN Returned(Chars("{}"), "nil")
            ELSE IF ~JSONValid(s) /\ HasPrefix(s, Chars("[")) THEN Returned(Chars("[]"), "nil")
            ELSE Returned(<<>>, "ErrJSONRepairFailed")

\* repairJSON(text)
repairJSONOf(text) == RunFrom("emptyCheck", text)

Resulted(value, err) == [done |-> TRUE, val |-> value, err |-> err]

\* lines 405-411, r being what the decode of the repaired text gave
ToDecodedRepaired(t, r) ==
    IF r.err = "nil" THEN Resulted(r.val, "nil")
    ELSE Resulted(Zero(t), "failed to parse repaired JSON into struct")

\* lines 394-411, rep being what repairJSON returned
ToRepaired(t, partial, rep) ==
    IF rep.err # "nil" THEN Resulted(Zero(t), "failed to repair JSON")
    ELSE IF rep.str = <<>> THEN Resulted(Zero(t), "JSON repair resulted in empty string")
    ELSE ToDecodedRepaired(t, Unmarshal(rep.str, t, partial))

\* lines 382-411, r being what the decode of d gave
ToDecoded(t, d, r) ==
    IF r.err = "nil" THEN Resulted(r.val, "nil")
    ELSE IF isArrayType(t) /\ ~isJSONArray(d) THEN Resulted(Zero(t), "ErrExpectedJSONArray")
    ELSE ToRepaired(t, r.val, repairJSONOf(d))

\* lines 376-411, d being the local data
ToPrepared(t, d) ==
    IF Len(d) = 0 THEN Resulted(Zero(t), "empty input string")
    ELSE ToDecoded(t, d, Unmarshal(d, t, Zero(t)))

\* To[t](text)
ToOf(t, text) == ToPrepared(t, RemoveNewlines(prepareJSONForUnmarshalling(text)))

(***************************************************************************)
(* Two calls running concurrently.  The variables of the call hold the     *)
(* frame of the goroutine that is running, other holds the frame of the    *)
(* one that is not; the scheduler may switch between any two statements.   *)
(***************************************************************************)
PairCalls ==
    { <<"repairJSON", "none", Chars("[1 2 3]")>>,
      <<"repairJSON", "none", Chars("x [1, 2] y")>>,
      <<"repairJSON", "none", Chars("{name: John, age: 30}")>>,
      <<"To", "struct", Chars("{ID: 1, 'Query': 'q'}")>>,
      <<"To", "slice", Chars("[1, 2,")>> }

\* the frame of the running call
CurrentFrame ==
    [ entry |-> entry, T |-> T, raw |-> raw, pc |-> pc, arg |-> arg, src |-> src,
      ret |-> ret, data |-> data, response |-> response, out |-> out, log |-> log ]

\* Switch resuming the other call with the local src of the call it
\* suspends, as if src were a buffer the calls shared (a faulty variant that
\* C13_CallsIndependent tells apart from the locals of lines 23-186)
SwitchLeaking ==
    /\ other.pc # "done"
    /\ other' = CurrentFrame
    /\ entry' = other.entry /\ T' = other.T /\ raw' = other.raw /\ pc' = other.pc
    /\ arg' = other.arg /\ src' = src /\ ret' = other.ret
    /\ data' = other.data /\ response' = other.response /\ out' = other.out
    /\ log' = other.log
    /\ UNCHANGED <<fields, marks>>

\* the scheduler suspends the running call and resumes the other one
Switch ==
    /\ other.pc # "done"
    /\ other' = CurrentFrame
    /\ entry' = other.entry /\ T' = other.T /\ raw' = other.raw /\ pc' = other.pc
    /\ arg' = other.arg /\ src' = other.src /\ ret' = other.ret
    /\ data' = other.data /\ response' = other.response /\ out' = other.out
    /\ log' = other.log
    /\ UNCHANGED <<fields, marks>>

PairInit ==
    \E a \in PairCalls, b \in PairCalls :
        /\ entry = a[1] /\ T = a[2] /\ raw = a[3]
        /\ pc = Frame(a[1], a[2], a[3]).pc
        /\ arg = Frame(a[1], a[2], a[3]).arg
        /\ src = Frame(a[1], a[2], a[3]).src
        /\ ret = NoReturn /\ data = <<>> /\ response = Zero(a[2]) /\ out = NoResult
        /\ log = <<>>
        /\ other = Frame(b[1], b[2], b[3])
        /\ fields = <<>>
        /\ marks = <<>>

PairNext == Next \/ Switch

PairSpec == PairInit /\ [][PairNext]_vars

(***************************************************************************)
(* Schema: the fields of a schema, declared in order with the constructors *)
(* and changed through their pointers with the chainable modifiers.        *)
(***************************************************************************)
\* the Field a constructor returns
NewField(name, valueType) ==
    [ ValueName |-> name, ValueType |-> valueType, ValueDescription |-> "",
      Value |-> "", ValueRequired |-> FALSE ]

\* the last two of a field's alternating Required and Optional, m being
\* applied (a modifier applied again on itself is recorded once)
Marked(mark, m) ==
    IF mark # <<>> /\ mark[Len(mark)] = m THEN mark
    ELSE IF Len(mark) = 2 THEN <<mark[2], m>>
    ELSE Append(mark, m)

SchemaFrame ==
    UNCHANGED <<entry, T, raw, pc, arg, src, ret, data, response, out, log, other>>

\* the field is appended to Schema.Fields
Declare(field) ==
    /\ pc = "schema"
    /\ Len(fields) < MaxFields
    /\ fields' = Append(fields, field)
    /\ marks' = Append(marks, <<>>)
    /\ SchemaFrame

\* a field changed through its pointer
Modify(i, field, mark) ==
    /\ pc = "schema"
    /\ fields' = [fields EXCEPT ![i] = field]
    /\ marks' = [marks EXCEPT ![i] = mark]
    /\ SchemaFrame

Text(name) == Declare(NewField(name, "string"))

ArrayOf(name) == Declare(NewField(name, "array"))

Type(i, valueType) == Modify(i, [fields[i] EXCEPT !.ValueType = valueType], marks[i])

SetValue(i, value) == Modify(i, [fields[i] EXCEPT !.Value = value], marks[i])

Desc(i, valueDescription) ==
    Modify(i, [fields[i] EXCEPT !.ValueDescription = valueDescription], marks[i])

Required(i) ==
    Modify(i, [fields[i] EXCEPT !.ValueRequired = TRUE], Marked(marks[i], "Required"))

\* Optional leaving ValueRequired as it is (a faulty variant that
\* C17_RequiredFieldsTracked tells apart from lines 640-643)
OptionalKeeping(i) == Modify(i, fields[i], Marked(marks[i], "Optional"))

Optional(i) ==
    Modify(i, [fields[i] EXCEPT !.ValueRequired = FALSE], Marked(marks[i], "Optional"))

\* the loop of RequiredFields over r.Fields from the n-th field on
RECURSIVE requiredFrom(_, _, _)
requiredFrom(fs, n, required) ==
    IF n > Len(fs) THEN required
    ELSE IF fs[n].ValueType = "array" /\ fs[n].ValueRequired
         THEN requiredFrom(fs, n + 1, Append(required, fs[n].ValueName))
    ELSE IF fs[n].ValueRequired
         THEN requiredFrom(fs, n + 1, Append(required, fs[n].ValueName))
    ELSE requiredFrom(fs, n + 1, required)

\* Schema.RequiredFields (nil, returned for no name, is the empty sequence)
RequiredFields(fs) == requiredFrom(fs, 1, <<>>)

SchemaInit ==
    /\ entry = "Schema" /\ T = "none" /\ raw = <<>> /\ pc = "schema"
    /\ arg = <<>> /\ src = <<>> /\ ret = NoReturn
    /\ data = <<>> /\ response = Zero(T) /\ out = NoResult /\ log = <<>>
    /\ other = NoCall
    /\ fields = <<>>
    /\ marks = <<>>

SchemaNext ==
    \/ Text("a")
    \/ ArrayOf("b")
    \/ \E i \in DOMAIN fields : Type(i, "custom_type")
    \/ \E i \in DOMAIN fields : SetValue(i, "default")
    \/ \E i \in DOMAIN fields : Desc(i, "Field description")
    \/ \E i \in DOMAIN fields : Required(i)
    \/ \E i \in DOMAIN fields : Optional(i)

SchemaSpec == SchemaInit /\ [][SchemaNext]_vars

(***************************************************************************)
(* The properties.  ret and out hold what repairJSON and To returned, arg  *)
(* is the text repairJSON was called with (by the caller, or by To), and   *)
(* log is the history of the call.                                         *)
(***************************************************************************)
\* how many times a step occurs in log
Occurrences(name) == Cardinality({n \in DOMAIN log : log[n] = name})

NoBrackets(text) == IndexAny(text, {"{", "["}) = 0

EmptyLiteral == Chars("\"\"")

\* C1: whenever repairJSON returns a nil error, the string it returns is
\* valid JSON, or it is empty and so was the input: no return path, the
\* early returns of the ellipsis and dangling-comma steps included, gives a
\* nil error with a non-empty string that is not valid JSON.
C1_ValidOrError ==
    ret.done /\ ret.err = "nil" =>
        \/ JSONValid(ret.str)
        \/ ret.str = <<>> /\ arg = <<>>

\* the dangling-comma step returns "[{]" with a nil error
C1_InvalidReturned ==
    /\ ret.done /\ arg = Chars("[{,")
    /\ ret.err = "nil" /\ ret.str = Chars("[{]") /\ ~JSONValid(ret.str)

\* C2: for every valid JSON text, repairJSON returns a nil error and a
\* compact valid text that decodes to the value the input decodes to.
C2_ValidUnchanged ==
    ret.done /\ JSONValid(arg) =>
        /\ ret.err = "nil"
        /\ JSONValid(ret.str)
        /\ Compact(ret.str) = ret.str
        /\ Decode(ret.str) = Decode(arg)

\* the valid text 1 comes back as the empty string literal
C2_NumberLost ==
    /\ ret.done /\ arg = Chars("1") /\ JSONValid(arg)
    /\ ret.err = "nil" /\ ret.str = EmptyLiteral

\* C3 as stated: for a non-empty text without "{" and "[", repairJSON
\* returns the error ErrJSONRepairFailed and no value.
C3_PlainTextFails ==
    ret.done /\ arg # <<>> /\ NoBrackets(arg) =>
        ret.err = "ErrJSONRepairFailed" /\ ret.str = <<>>

\* C3: for a non-empty text without "{" and "[": when the trimmed text does
\* not start with a double quote, repairJSON returns the empty string
\* literal and a nil error; when it does, repairJSON returns valid JSON and
\* a nil error, or the error ErrJSONRepairFailed and no value.
C3_PlainText ==
    ret.done /\ arg # <<>> /\ NoBrackets(arg) =>
        IF HasPrefix(preTrimmed(arg), Chars("\""))
        THEN \/ ret.err = "nil" /\ JSONValid(ret.str)
             \/ ret.err = "ErrJSONRepairFailed" /\ ret.str = <<>>
        ELSE ret.err = "nil" /\ ret.str = EmptyLiteral

\* justsomeplaintext has come back as the empty string literal
C3_PlainTextReturned ==
    /\ ret.done /\ entry = "repairJSON" /\ arg = Chars("justsomeplaintext")
    /\ ret.err = "nil" /\ ret.str = EmptyLiteral

\* the minimal inputs of Test_BracketsEdgeCases and what they give
MinimalInputs ==
    { <<Chars(""), Chars("")>>,
      <<Chars("\""), EmptyLiteral>>,
      <<Chars("\n"), EmptyLiteral>>,
      <<Chars(" "), EmptyLiteral>>,
      <<Chars("]"), EmptyLiteral>>,
      <<Chars("}"), EmptyLiteral>>,
      <<Chars("["), Chars("[]")>>,
      <<Chars("{"), Chars("{}")>>,
      <<Chars("[{]"), Chars("[{}]")>>,
      <<Chars("{\""), Chars("{}")>>,
      <<Chars("[\""), Chars("[]")>> }

\* C4: each minimal input gives its fixed output and a nil error.
C4_MinimalInputs ==
    ret.done =>
        \A case \in MinimalInputs :
            arg = case[1] => ret.err = "nil" /\ ret.str = case[2]

\* the lone quote has come back as the empty string literal
C4_LoneQuoteReturned ==
    /\ ret.done /\ entry = "repairJSON" /\ arg = Chars("\"")
    /\ ret.err = "nil" /\ ret.str = EmptyLiteral

\* C5: in To with a slice target, once the normalized text is not empty and
\* does not begin with "[", repairJSON is never called, and the call
\* returns ErrExpectedJSONArray.
C5_ArrayGuard ==
    entry = "To" /\ T = "slice" /\ data # <<>> /\ data[1] # "[" =>
        /\ Occurrences("repairJSON") = 0
        /\ ~ret.done
        /\ out.done => out.err = "ErrExpectedJSONArray"

\* an object payload for a slice target has been refused
C5_ObjectRefused ==
    /\ entry = "To" /\ T = "slice" /\ out.done
    /\ data = Chars("{\"ID\": 42, \"Query\": \"test query\"}")
    /\ out.err = "ErrExpectedJSONArray"
    /\ Occurrences("unmarshal") = 1

\* C6: To with the struct target, given a payload whose only defects are a
\* bare key and single-quoted keys and string values, succeeds with the
\* field values the well-formed payload decodes to.
C6_DefectivePayloadDecodes ==
    entry = "To" /\ T = "struct" /\ out.done =>
        \A p \in StructPayloads :
            raw = p[1] =>
                /\ out.err = "nil"
                /\ out.val = Unmarshal(p[2], "struct", ZeroStruct).val

\* {ID: 1, 'Query': 'x,y:z'} has decoded, without error, to the zero struct
C6_FieldsLost ==
    /\ entry = "To" /\ T = "struct" /\ out.done
    /\ raw = DefectivePayload(Chars("1"), Chars("x,y:z"))
    /\ out.err = "nil" /\ out.val = ZeroStruct

\* C7: whenever To returns an error, the value it returns is the zero value
\* of T, whatever the decodes have stored into response.
C7_AllOrNothing ==
    out.done /\ out.err # "nil" => out.val = Zero(T)

\* the final decode failed after the decodes had stored a field
C7_PartialDiscarded ==
    /\ out.done /\ out.err = "failed to parse repaired JSON into struct"
    /\ response # Zero(T) /\ out.val = Zero(T)

\* C8: in a To call, an empty normalized text ends the call with the
\* empty-input error before any decode or repair; there are at most two
\* decodes and at most one call of repairJSON; repairJSON is called only
\* after a first decode, and only if the direct decode of the normalized
\* text fails.
C8_SingleRepairCycle ==
    entry = "To" =>
        /\ Occurrences("unmarshal") <= 2
        /\ Occurrences("repairJSON") <= 1
        /\ \A n \in DOMAIN log :
               log[n] = "repairJSON" =>
                   /\ \E m \in 1..(n - 1) : log[m] = "unmarshal"
                   /\ \A m \in 1..(n - 1) : log[m] \in {"prepare", "unmarshal"}
                   /\ Unmarshal(data, T, Zero(T)).err # "nil"
        /\ \A n \in DOMAIN log :
               log[n] = "unmarshal" /\ n > 2 => Occurrences("repairJSON") = 1
        /\ pc \notin {"prepare", "emptyInput"} /\ data = <<>> =>
               /\ out.done /\ out.err = "empty input string"
               /\ log = <<"prepare">>
        /\ out.done /\ Occurrences("repairJSON") = 0 /\ out.err = "nil" =>
               log = <<"prepare", "unmarshal">>

\* a call that decoded, repaired once and decoded again has returned
C8_RepairedOnce ==
    /\ entry = "To" /\ out.done /\ out.err = "nil"
    /\ Occurrences("repairJSON") = 1 /\ Occurrences("unmarshal") = 2
    /\ log[1] = "prepare" /\ log[2] = "unmarshal" /\ log[3] = "repairJSON"
    /\ log[Len(log)] = "unmarshal"

\* C9: the normalized text of To is empty only when the input holds no
\* opening "{" or "[": an array surrounded by other text, or a text that
\* holds "[" without being wrapped in "[" and "]", does not normalize to the
\* empty text.
C9_EmptyOnlyWithoutBrackets ==
    entry = "To" /\ pc # "prepare" /\ ~NoBrackets(raw) => data # <<>>

\* an array surrounded by other text has normalized to the empty text
C9_ArrayLost ==
    /\ entry = "To" /\ out.done /\ raw = Chars("x [1, 2] y")
    /\ data = <<>> /\ out.err = "empty input string"

\* C10: for a text without double quotes and backslashes that is a valid
\* JSON object or array once its single quotes are written as double
\* quotes, repairJSON returns a nil error and valid JSON that decodes to the
\* value of the double-quoted text.
C10_SingleQuotesNormalized ==
    /\ ret.done /\ arg # <<>> /\ arg[1] \in {"{", "["}
    /\ \A n \in DOMAIN arg : arg[n] \notin {"\"", "\\"}
    /\ JSONValid(DoubleQuoted(arg))
    => /\ ret.err = "nil"
       /\ JSONValid(ret.str)
       /\ Decode(ret.str) = Decode(DoubleQuoted(arg))

\* ['a b'] has come back as ["a,b"]
C10_SpaceRewritten ==
    /\ ret.done /\ arg = Chars("['a b']")
    /\ ret.err = "nil" /\ ret.str = Chars("[\"a,b\"]")

\* C11: for a JSON object or array cut before some or all of its trailing
\* closing brackets and braces, repairJSON returns a nil error and valid
\* JSON that decodes to the value of the whole document.
C11_TruncationRestored ==
    ret.done =>
        \A p \in TruncatedDocuments :
            arg = p[1] =>
                /\ ret.err = "nil"
                /\ JSONValid(ret.str)
                /\ Decode(ret.str) = Decode(p[2])

\* ["b c"] cut before its closing bracket has come back as ["b,c"]
C11_StringRewritten ==
    /\ ret.done /\ arg = Chars("[\"b c\"")
    /\ ret.err = "nil" /\ ret.str = Chars("[\"b,c\"]")

\* C12: for an object with bare keys whose values are numbers, quoted
\* strings or bare identifiers other than true, false and null, repairJSON
\* returns a nil error and the object with every key quoted, every bare
\* value as the string of the same spelling, and numbers as numbers.
C12_BareObjectQuoted ==
    ret.done =>
        \A p \in BareObjects :
            arg = p[1] =>
                /\ ret.err = "nil"
                /\ JSONValid(ret.str)
                /\ Decode(ret.str) = Decode(p[2])

\* {name: nullable} has come back as the empty object
C12_MemberLost ==
    /\ ret.done /\ arg = Chars("{name: nullable}")
    /\ ret.err = "nil" /\ ret.str = Chars("{}")

\* the string values and the numbers of a syntax tree, as spelled
RECURSIVE Leaves(_)
Leaves(tree) ==
    IF tree[1] \in {"str", "num"} THEN {tree[2]}
    ELSE IF tree[1] = "arr"
         THEN UNION {Leaves(tree[2][n]) : n \in DOMAIN tree[2]}
    ELSE IF tree[1] = "obj"
         THEN UNION {Leaves(tree[2][n][2]) : n \in DOMAIN tree[2]}
    ELSE {}

\* C16: a successful result other than the empty structures {} and [] holds
\* no string value and no number that does not occur in the input (inputs
\* without escape sequences, so that a string body is spelled as its value).
C16_NoInventedValues ==
    /\ ret.done /\ ret.err = "nil" /\ JSONValid(ret.str)
    /\ ret.str \notin {Chars("{}"), Chars("[]")}
    /\ \A n \in DOMAIN arg : arg[n] # "\\"
    => \A leaf \in Leaves(TreeOf(ret.str)) : Contains(arg, leaf)

\* ["x" "y" "z" 7] has come back with the strings a, b, c and the number 1
C16_ValuesInvented ==
    /\ ret.done /\ arg = Chars("[\"x\" \"y\" \"z\" 7]")
    /\ ret.err = "nil" /\ ret.str = Chars("[\"a\",\"b\",\"c\",1]")

\* whether a comma of s is followed, ignoring whitespace, by } or ]
CommaBeforeCloser(s) ==
    \E i \in DOMAIN s :
        /\ s[i] = ","
        /\ SkipClass(s, i + 1, ReSpace) <= Len(s)
        /\ s[SkipClass(s, i + 1, ReSpace)] \in {"}", "]"}

\* C18: in the output of removeTrailingCommas no comma is followed, ignoring
\* whitespace, by } or ]; and the array [1,,], with trailing commas before
\* its closer, repairs to the value of [1].
C18_NoCommaBeforeCloser ==
    /\ pc = "balanceBrackets" => ~CommaBeforeCloser(src)
    /\ ret.done /\ arg = Chars("[1,,]")
       => ret.err = "nil" /\ JSONValid(ret.str) /\ Decode(ret.str) = Decode(Chars("[1]"))

\* removeTrailingCommas has turned [1,,] into [1,]
C18_CommaLeft ==
    /\ pc = "balanceBrackets" /\ arg = Chars("[1,,]") /\ src = Chars("[1,]")

\* C19: for an array of quoted strings followed by a number, separated by
\* spaces, repairJSON returns the array of the same elements in the same
\* order.
C19_SpacedElementsKept ==
    ret.done =>
        \A p \in SpacedArrays :
            arg = p[1] =>
                /\ ret.err = "nil"
                /\ JSONValid(ret.str)
                /\ Decode(ret.str) = Decode(p[2])

\* ["x" "y" "c" 7] has come back as ["a","b","c",1]
C19_LiteralSubstituted ==
    /\ ret.done /\ arg = Chars("[\"x\" \"y\" \"c\" 7]")
    /\ ret.err = "nil" /\ ret.str = Chars("[\"a\",\"b\",\"c\",1]")

\* C20: a value spelled true, false or null in any letter case, after a
\* colon with any whitespace and before a comma, a brace or the end of the
\* text, comes back as the lowercase keyword; a bare identifier that begins
\* with a keyword comes back as a string.
C20_KeywordsNormalized ==
    ret.done =>
        /\ \A p \in KeywordObjects :
               arg = p[1] =>
                   /\ ret.err = "nil"
                   /\ JSONValid(ret.str)
                   /\ Decode(ret.str) = Decode(p[2])
        /\ arg = Chars("{name: nullable}") =>
               /\ ret.err = "nil"
               /\ JSONValid(ret.str)
               /\ Decode(ret.str) = Decode(Chars("{\"name\": \"nullable\"}"))

\* {"a":True} has come back with the string "true"
C20_KeywordQuoted ==
    /\ ret.done /\ arg = Chars("{\"a\":True}")
    /\ ret.err = "nil" /\ ret.str = Chars("{\"a\":\"true\"}")

\* the rewrite passes of lines 119-141, in the order of the code
PassOrder ==
    << "replaceQuotes", "fixUnquotedKeys", "fixUnquotedValues",
       "removeTrailingCommas", "balanceBrackets", "ellipsisCleanup",
       "insertCommas", "recheck" >>

\* the rewrite passes made so far
Passes == SelectSeq(log, LAMBDA e : \E n \in DOMAIN PassOrder : PassOrder[n] = e)

\* C14: every repairJSON call returns; the passes made so far are always an
\* initial part of PassOrder (each pass once, in this order, none again
\* after a later one), and a call that entered the pipeline has made all of
\* them when it returns.
C14_TerminatesInOrder ==
    /\ [](\E n \in 0..Len(PassOrder) : Passes = SubSeq(PassOrder, 1, n))
    /\ [](ret.done /\ Passes # <<>> => Passes = PassOrder)
    /\ [][pc' \in Labels \ {pc}]_vars
    /\ (pc = "emptyCheck") ~> ret.done

\* a call has returned from the validity recheck after all eight passes
C14_AllPassesRun ==
    /\ ret.done /\ arg = Chars("{name: \"John\", age: 30}")
    /\ Passes = PassOrder /\ ret.str = Chars("{\"name\":\"John\",\"age\":30}")

\* the names of the fields whose last modifier of Required and Optional is
\* Required, in the order of declaration
MarkedRequired ==
    LET idx == SelectSeq([n \in DOMAIN fields |-> n],
                         LAMBDA n : marks[n] # <<>> /\ marks[n][Len(marks[n])] = "Required")
    IN  [k \in DOMAIN idx |-> fields[idx[k]].ValueName]

\* C17: RequiredFields returns, in declaration order, the names of exactly
\* the fields whose last modifier of Required and Optional is Required: no
\* field as constructed, and none through Desc, Type or SetValue.
C17_RequiredFieldsTracked == RequiredFields(fields) = MarkedRequired

\* of two fields the first was made required and then optional again, the
\* second was described, retyped and made required: only the second is named
C17_OptionalAfterRequired ==
    /\ Len(fields) = 2
    /\ marks[1] = <<"Required", "Optional">> /\ marks[2] = <<"Optional", "Required">>
    /\ fields[2].ValueType = "custom_type"
    /\ fields[2].ValueDescription = "Field description"
    /\ fields[2].Value = "default"
    /\ RequiredFields(fields) = <<fields[2].ValueName>>

Anchored(text) == Slice(text, IndexAny(text, {"{", "["}), Len(text))

\* C15 as stated: for a non-empty argument whose pre-trimmed text starts
\* with none of {, [ and ", repairJSON returns what it returns for the text
\* from the first { or [ on, and "" with a nil error when there is neither.
C15_SuffixRepaired ==
    ret.done /\ arg # <<>> /\ needsAnchor(preTrimmed(arg))
    => IF NoBrackets(preTrimmed(arg))
       THEN ret = Returned(EmptyLiteral, "nil")
       ELSE ret = repairJSONOf(Anchored(preTrimmed(arg)))

\* C15 amended: repairJSON returns what its statements from the fast path
\* on give for the text from the first { or [ on, which is what it returns
\* for that text unless the text ends with a fence (that a second pre-trim
\* would strip); and "" with a nil error when there is neither { nor [.
C15_AnchoredSuffix ==
    ret.done /\ arg # <<>> /\ needsAnchor(preTrimmed(arg))
    => IF NoBrackets(preTrimmed(arg))
       THEN ret = Returned(EmptyLiteral, "nil")
       ELSE /\ ret = RunFrom("fastPath", Anchored(preTrimmed(arg)))
            /\ ~HasSuffix(Anchored(preTrimmed(arg)), Fence)
               => ret = repairJSONOf(Anchored(preTrimmed(arg)))

\* stringbeforeobject {} has come back as {}
C15_ProseDiscarded ==
    /\ ret.done /\ arg = Chars("stringbeforeobject {}")
    /\ ret.err = "nil" /\ ret.str = Chars("{}")

\* C21: after the comma insertion on a text starting with [ no two
\* adjacent tokens are left with only whitespace between them (the regexp of
\* the pass finds nothing more to rewrite), so that [1 2 3] repairs to
\* [1,2,3]; and a text that is one array of one string keeps its string.
C21_CommaBetweenEveryPair ==
    /\ pc = "recheck" /\ HasPrefix(src, Chars("[")) => insertCommas(src) = src
    /\ ret.done /\ arg = Chars("[1 2 3]") => ret.err = "nil" /\ ret.str = Chars("[1,2,3]")
    /\ pc = "recheck" /\ arg = Chars("[\"b c\"") => src = Chars("[\"b c\"]")

\* the comma insertion has turned [1 2 3] into [1,2 3]
C21_PairSkipped ==
    /\ pc = "recheck" /\ arg = Chars("[1 2 3]") /\ src = Chars("[1,2 3]")

\* the single quote at s[n] follows one backslash that nothing escapes
EscapedAt(s, n) ==
    /\ n >= 2 /\ s[n - 1] = "\\"
    /\ \A m \in 1..(n - 2) : s[m] # "\\"

\* s[n] stands inside a double-quoted string: an odd number of double
\* quotes, and neither a single quote nor a backslash, come before it
InDoubleQuoted(s, n) ==
    /\ Cardinality({m \in 1..(n - 1) : s[m] = "\""}) % 2 = 1
    /\ \A m \in 1..(n - 1) : s[m] \notin {"'", "\\"}

\* C22: replaceQuotes keeps the length of the text and every character
\* that is not a single quote, and leaves a single quote as it is after a
\* backslash and inside a double-quoted string.
C22_StructuralQuotesOnly ==
    [][pc = "replaceQuotes" =>
          /\ Len(src') = Len(src)
          /\ \A n \in DOMAIN src :
                /\ src[n] # "'" => src'[n] = src[n]
                /\ src[n] = "'" /\ EscapedAt(src, n) => src'[n] = "'"
                /\ src[n] = "'" /\ InDoubleQuoted(src, n) => src'[n] = "'"]_vars

\* replaceQuotes has turned the apostrophe of {a: "it's"} into a double quote
C22_ApostropheConverted ==
    /\ pc = "fixUnquotedKeys" /\ arg = Chars("{a: \"it's\"}")
    /\ src = Chars("{a: \"it\"s\"}")


\* C23: for an array of well-formed elements followed by a separator and a
\* literal ..., with or without the closing bracket, repairJSON returns a nil
\* error and the array of exactly those elements in order.
C23_EllipsisRemoved ==
    \A p \in EllipsisArrays :
        ret.done /\ arg = p[1] =>
            /\ ret.err = "nil"
            /\ JSONValid(ret.str)
            /\ Decode(ret.str) = Decode(p[2])

\* the array of a nested array and a number has come back cut at the first
\* closing bracket
C23_CutAtFirstCloser ==
    /\ ret.done /\ arg = Chars("[[1], 1, ...]")
    /\ ret.err = "nil" /\ ret.str = Chars("[[1]")

\* the scalar elements of an array ending in ... have come back in order
C23_ScalarsKept ==
    /\ ret.done /\ arg = Chars("[1, \"a\", ...")
    /\ ret.err = "nil" /\ ret.str = Chars("[1,\"a\"]")


\* C24: whenever repairJSON returns an error, its input contains neither
\* "{" nor "[".
C24_ErrorOnlyWithoutBrackets ==
    ret.done /\ ret.err # "nil" => NoBrackets(arg)

\* a quote followed by an opening bracket has been refused with
\* ErrJSONRepairFailed
C24_BracketRefused ==
    /\ ret.done /\ arg = Chars("\"[") /\ ~NoBrackets(arg)
    /\ ret.err = "ErrJSONRepairFailed" /\ ret.str = <<>>


\* the statements of repairJSON from the fast path to the final fallback
AfterAnchor ==
    { "fastPath", "skeleton", "ellipsis", "danglingComma", "spaceSeparated",
      "apostrophe", "incomplete", "replaceQuotes", "fixUnquotedKeys",
      "fixUnquotedValues", "removeTrailingCommas", "balanceBrackets",
      "ellipsisCleanup", "insertCommas", "recheck", "degraded",
      "recheckDegraded", "fallback" }

\* the first character of the pre-trimmed or anchored text ("" when the
\* pre-trimmed text needs an anchor and has no bracket)
AnchoredFirst(text) ==
    LET p == preTrimmed(text)
    IN  IF ~needsAnchor(p) THEN p[1]
        ELSE IF NoBrackets(p) THEN ""
        ELSE p[IndexAny(p, {"{", "["})]

\* C25: repairJSON returns an error only when the pre-trimmed text starts
\* with a double quote and is not valid JSON after all the rewrite passes;
\* from the fast path to the final fallback the first character of the text
\* is the first character of the pre-trimmed or anchored text; and a call
\* whose pre-trimmed or anchored text starts with "{" or "[" returns a nil
\* error.
C25_ErrorOnlyForQuoted ==
    /\ ret.done /\ ret.err # "nil" =>
          /\ HasPrefix(preTrimmed(arg), Chars("\""))
          /\ Passes = PassOrder
          /\ ~JSONValid(src)
    /\ pc \in AfterAnchor => src # <<>> /\ src[1] = AnchoredFirst(arg)
    /\ ret.done /\ arg # <<>> /\ AnchoredFirst(arg) \in {"{", "["} => ret.err = "nil"

\* an unterminated string has been refused after all the rewrite passes
C25_QuotedRefused ==
    /\ ret.done /\ arg = Chars("\"abc") /\ Passes = PassOrder
    /\ src[1] = "\"" /\ ~JSONValid(src)
    /\ ret.err = "ErrJSONRepairFailed"

\* an array that no pass could repair has come back as [] from the fallback
C25_FallbackArray ==
    /\ ret.done /\ arg = Chars("[1 2 3]") /\ Passes = PassOrder
    /\ ~JSONValid(src) /\ ret = Returned(Chars("[]"), "nil")


\* the error kinds To can return besides a nil error
ReachableKinds ==
    { "empty input string", "ErrExpectedJSONArray",
      "failed to parse repaired JSON into struct" }

\* C26: in To, a non-empty normalized text starts with "{" or "["; the
\* repairJSON call made by To returns a nil error and a non-empty string;
\* and To returns success or one of the kinds empty-input, expected-array
\* and final-decode-failed, never repair-failed or repair-empty.
C26_NoRepairErrorFromTo ==
    /\ entry = "To" /\ data # <<>> => data[1] \in {"{", "["}
    /\ entry = "To" /\ ret.done => ret.err = "nil" /\ ret.str # <<>>
    /\ entry = "To" /\ out.done =>
          /\ out.err \in ReachableKinds \cup {"nil"}
          /\ out.err \notin {"failed to repair JSON", "JSON repair resulted in empty string"}

\* a To call has gone through repairJSON and returned the decoded value
C26_RepairedAndDecoded ==
    /\ entry = "To" /\ T = "struct" /\ out.done
    /\ raw = Chars("{name: \"John\", age: 30}") /\ data[1] = "{"
    /\ ret.done /\ ret.err = "nil" /\ ret.str # <<>>
    /\ out.err = "nil"

\* a To call has gone through repairJSON and failed at the final decode
C26_FinalDecodeFailed ==
    /\ entry = "To" /\ out.done /\ ret.done /\ ret.err = "nil"
    /\ out.err = "failed to parse repaired JSON into struct"


\* whether text starts with open and ends with close
Wrapped(text, open, close) ==
    Len(text) > 0 /\ text[1] = open /\ text[Len(text)] = close

\* whether text holds a "{" from which the brace depth returns to zero
HasBraceRegion(text) ==
    \E i \in DOMAIN text : \E j \in DOMAIN text :
        /\ i < j /\ text[i] = "{" /\ text[j] = "}"
        /\ Count(Slice(text, i, j), "{") = Count(Slice(text, i, j), "}")

\* C27: in To, a non-empty normalized text starts with "{" and ends with
\* "}", or starts with "[" and ends with "]"; a text reaches the decoder or
\* repairJSON only if the raw input is wrapped in "[" and "]" or holds a
\* brace region whose depth returns to zero; and a raw input without "}"
\* that is not wrapped in "[" and "]" ends with the empty-input error, no
\* decode and no repair.
C27_OnlyWrappedHandedOn ==
    /\ entry = "To" /\ data # <<>> =>
          /\ Wrapped(data, "{", "}") \/ Wrapped(data, "[", "]")
          /\ Wrapped(TrimSpace(raw), "[", "]") \/ HasBraceRegion(raw)
    /\ entry = "To"
          /\ (ret.done \/ pc \in {"unmarshal", "arrayGuard", "repairCall", "unmarshalRepaired"})
          => data # <<>>
    /\ entry = "To" /\ out.done /\ Count(raw, "}") = 0
          /\ ~Wrapped(TrimSpace(raw), "[", "]")
          => /\ out.err = "empty input string"
             /\ Occurrences("unmarshal") = 0 /\ Occurrences("repairJSON") = 0

\* the object cut before its closing brace has ended with the empty-input
\* error
C27_TruncatedRefused ==
    /\ entry = "To" /\ out.done
    /\ raw = Chars("{\"name\": \"John\", \"age\": 30")
    /\ data = <<>> /\ out.err = "empty input string" /\ ~ret.done

\* the array cut before its closing bracket has ended with the empty-input
\* error
C27_UnclosedArrayRefused ==
    /\ entry = "To" /\ out.done /\ raw = Chars("[1, 2, 3")
    /\ data = <<>> /\ out.err = "empty input string" /\ ~ret.done


\* whether text has no more "{" than "}" and no more "[" than "]"
ClosersCover(text) ==
    /\ Count(text, "{") <= Count(text, "}")
    /\ Count(text, "[") <= Count(text, "]")

\* C28: from bracket balancing on, through ellipsis cleanup and comma
\* insertion, the text has no more "{" than "}" and no more "[" than "]";
\* the guard of the degraded key-value extraction is false whenever control
\* is at it, and the extraction leaves the text as it is.
C28_DegradedNeverTaken ==
    /\ [](pc \in {"ellipsisCleanup", "insertCommas", "recheck", "degraded"}
              => ClosersCover(src))
    /\ [](pc = "degraded" => ~degradedGuard(src))
    /\ [][pc = "degraded" => src' = src]_vars

\* the text {{ is at the degraded extraction, balanced and still invalid
C28_BalancedAtDegraded ==
    /\ pc = "degraded" /\ arg = Chars("{{") /\ src = Chars("{{}}")
    /\ ~JSONValid(src) /\ ~degradedGuard(src)


\* the closer of an opener
Closer(c) == IF c = "{" THEN "}" ELSE "]"

\* the openers of text left unclosed by the scan of lines 290-298
Unclosed(text) == bracketStackFrom(text, 1, <<>>)

\* C29: the balancing step only appends: the text before it is a prefix of
\* the text after it, what is appended is one matching closer for each
\* unclosed opener, the last opened first, and balancing the result again
\* leaves it as it is (nothing is left unclosed in it).
C29_AppendsClosers ==
    [][pc = "balanceBrackets" =>
          /\ Len(src') = Len(src) + Len(Unclosed(src))
          /\ \A n \in DOMAIN src : src'[n] = src[n]
          /\ \A k \in DOMAIN Unclosed(src) :
                src'[Len(src) + k] = Closer(Unclosed(src)[Len(Unclosed(src)) + 1 - k])
          /\ Unclosed(src') = <<>>
          /\ balanceBrackets(src') = src']_vars

\* the openers of {[ have been closed in reverse opening order
C29_ReverseOrder ==
    /\ pc = "ellipsisCleanup" /\ arg = Chars("{[") /\ src = Chars("{[]}")

\* a closer that does not match the last opener has been passed over
C29_MismatchIgnored ==
    /\ pc = "ellipsisCleanup" /\ arg = Chars("{]") /\ src = Chars("{]}")


\* C30: whenever repairJSON returns a string r with a nil error,
\* repairJSON(r) returns r itself with a nil error.
C30_IdempotentOnOutput ==
    ret.done /\ ret.err = "nil" => repairJSONOf(ret.str) = Returned(ret.str, "nil")

\* the ellipsis step has returned a valid array that is not compact, which
\* repairJSON maps to another text
C30_OutputNotCompact ==
    /\ ret.done /\ arg = Chars("[{\"k\": 1}, 1, ...]")
    /\ ret = Returned(Chars("[{\"k\": 1},1]"), "nil") /\ JSONValid(ret.str)
    /\ repairJSONOf(ret.str) = Returned(Chars("[{\"k\":1},1]"), "nil")

\* the ellipsis step has returned an invalid array, which repairJSON maps to
\* the empty array
C30_OutputRepairedAgain ==
    /\ ret.done /\ arg = Chars("[a...")
    /\ ret = Returned(Chars("[a]"), "nil")
    /\ repairJSONOf(ret.str) = Returned(Chars("[]"), "nil")

=============================================================================
